---- MODULE Spec2Model ----
\* A model of two components of the repository:
\*   src/src/api/rate_limiter.py      RateLimitConfig, InMemoryRateLimiter,
\*                                    RedisRateLimiter (fixed-window limiter)
\*   src/app/services/vector_store.py VectorStore / VectorStoreManager over
\*   src/app/services/embeddings.py   EmbeddingService.embed_texts
\*
\* Time is in whole seconds.  A limiter key "identifier:window_start" is the
\* sequence of its ":"-separated segments: the identifier's segments followed
\* by the window start.
EXTENDS Integers, Sequences, FiniteSets, TLC

\* ------------------------------------------------------------------ bounds
\* number of clock advances a behaviour may take
MaxTicks == 2
\* number of Redis faults (outage, script flush) a behaviour may inject
MaxFaults == 2
\* number of chunk records a collection may hold
MaxChunks == 3
\* number of window records the limiter's store may hold
MaxKeys == 2
\* vector store calls in one behaviour
MaxCalls == 3

\* --------------------------------------------------------- program constants
\* InMemoryRateLimiter._cleanup_interval
CleanupInterval == 300
\* _cleanup_old_windows: "Keep only last hour"
KeepSeconds == 3600
\* InMemoryRateLimiter.cleanup: default older_than = now - 3600
CleanupDefaultAge == 3600

\* ------------------------------------------------------------ input domains
\* caller identifiers, as ":"-separated segments ("u" and "u:x")
Identifiers == { <<"u">>, <<"u", "x">> }
Namespaces == { "ratelimit", "api" }
WindowChoices == { 120, 7200 }
LimitChoices == { 2 }
CostChoices == { 1, 3 }
\* chunk texts: one that embeds and a whitespace-only one
Texts == { "a", " " }
\* str(uuid.uuid4()): << the first 8 hex digits, the rest >>
Prefixes == { 1, 2 }
Rests == { 1, 2 }
ChunkIds == { c \in Prefixes \X Rests : c # << 2, 2 >> }
IdRank(c) == 2 * c[1] + c[2]
\* a chunk id whose first 8 characters are not hexadecimal
BadId == << -1, 1 >>
BatchSizes == { 1, 2 }
CollectionNames == { "c1", "c2" }
\* a collection name with a path separator in it
NestedName == "c1/x"
\* the path components of VECTOR_STORE_DIR / name below VECTOR_STORE_DIR
PathOf(name) == IF name = NestedName THEN << "c1", "x" >> ELSE << name >>
\* search arguments
Queries == { "a", " " }
Ks == { 1, 2 }
Thresholds == { 0, 80 }
FilterChoices == { [ key \in {} |-> 0 ], [ key \in { "page" } |-> 1 ] }
\* arguments tried on RateLimitConfig(...)
ArgCounts == -1 .. 3
ArgWindows == { -60, 0, 60, 120, 7200 }
\* explicit cleanup cutoffs, as ages: older_than = now - age
CleanupAges == { 120 }
\* clock advances between two calls (half a short window, and from the
\* construction to the last instant the sweep keeps the long window), and
\* between two clock reads of one call
Steps == { 60, 3600 - 120 }
Delays == { 0, 60 }

\* the instant the limiter is constructed at: on the boundary of a 120 s
\* window, 120 s into a 7200 s window
StartTime == 7200 + 120

NoKey == << >>
ValueError == [ error |-> "ValueError" ]

\* ---------------------------------------------------------- RateLimitConfig
\* RateLimitConfig(...) with __post_init__: the constructed object, or the
\* ValueError it raises
\* a __post_init__ without the check of cost
RateLimitConfig_NoCostCheck(requests_per_window, window_seconds, cost, namespace) ==
    IF requests_per_window <= 0 THEN ValueError
    ELSE IF window_seconds <= 0 THEN ValueError
    ELSE [ requests_per_window |-> requests_per_window,
           window_seconds |-> window_seconds,
           cost |-> cost,
           namespace |-> namespace ]

RateLimitConfig(requests_per_window, window_seconds, cost, namespace) ==
    IF requests_per_window <= 0 THEN ValueError
    ELSE IF window_seconds <= 0 THEN ValueError
    ELSE IF cost <= 0 THEN ValueError
    ELSE [ requests_per_window |-> requests_per_window,
           window_seconds |-> window_seconds,
           cost |-> cost,
           namespace |-> namespace ]

\* the configs the callers of the model pass to the limiter: the unit-cost
\* short window under every namespace, and the long window with every cost
\* under the default namespace
Configs ==
    { cfg \in { RateLimitConfig(n, w, c, ns) :
                  n \in LimitChoices, w \in WindowChoices, c \in CostChoices, ns \in Namespaces } :
        /\ cfg # ValueError
        /\ \/ cfg.window_seconds = 120 /\ cfg.cost = 1
           \/ cfg.window_seconds = 7200 /\ cfg.namespace = "ratelimit" }

\* RateLimitResult
RateLimitResult(allowed, limit, remaining, reset_time, retry_after, cost, identifier, window_key) ==
    [ allowed |-> allowed, limit |-> limit, remaining |-> remaining,
      reset_time |-> reset_time, retry_after |-> retry_after, cost |-> cost,
      identifier |-> identifier, window_key |-> window_key ]

Max(a, b) == IF a >= b THEN a ELSE b

\* ------------------------------------------------------ InMemoryRateLimiter
\* int(t // window_seconds) * window_seconds
WindowStart(t, window_seconds) == (t \div window_seconds) * window_seconds

\* f"{identifier}:{window_start}", the clock read at t
_get_window_key(identifier, window_seconds, t) ==
    Append(identifier, WindowStart(t, window_seconds))

\* int(key.split(":")[-1])
KeyWindowStart(key) == key[Len(key)]

\* key.startswith(f"{identifier}:")
StartsWith(key, identifier) ==
    /\ Len(identifier) < Len(key)
    /\ SubSeq(key, 1, Len(identifier)) = identifier

Restrict(f, S) == [ k \in S |-> f[k] ]

\* _cleanup_old_windows, the clock read at t: the storage and _last_cleanup
\* it leaves
_cleanup_old_windows(storage, last_cleanup, t) ==
    IF t - last_cleanup < CleanupInterval
    THEN [ storage |-> storage, last_cleanup |-> last_cleanup ]
    ELSE [ storage |->
             Restrict(storage,
                      { k \in DOMAIN storage : ~(t - KeyWindowStart(k) > KeepSeconds) }),
           last_cleanup |-> t ]

\* the count check_rate_limit adds to the window on an allowed call
IncrementBy(config) == config.cost

\* a reset time rounded up, which is current_time itself on a boundary
ResetTime_RoundedUp(current_time, window_seconds) ==
    ((current_time + window_seconds - 1) \div window_seconds) * window_seconds

\* reset_time = (int(current_time // window_seconds) + 1) * window_seconds
ResetTime(current_time, window_seconds) ==
    ((current_time \div window_seconds) + 1) * window_seconds

\* the locked section of InMemoryRateLimiter.check_rate_limit on `storage`:
\* window_key was computed at an earlier clock read, current_time is the
\* later one
MemCheckLocked(storage, identifier, config, window_key, current_time) ==
    LET reset_time == ResetTime(current_time, config.window_seconds)
        st0 == IF window_key \in DOMAIN storage
               THEN storage
               ELSE [ k \in DOMAIN storage \cup { window_key } |->
                        IF k = window_key
                        THEN [ count |-> 0, created |-> current_time ]
                        ELSE storage[k] ]
        current_count == st0[window_key].count
    IN  IF current_count + config.cost > config.requests_per_window
        THEN [ storage |-> st0,
               result |-> RateLimitResult(FALSE, config.requests_per_window,
                            Max(0, config.requests_per_window - current_count),
                            reset_time, reset_time - current_time,
                            config.cost, identifier, window_key) ]
        ELSE [ storage |-> [ st0 EXCEPT ![window_key].count = @ + IncrementBy(config) ],
               result |-> RateLimitResult(TRUE, config.requests_per_window,
                            config.requests_per_window - (current_count + IncrementBy(config)),
                            reset_time, 0,
                            config.cost, identifier, window_key) ]

\* the locked section of InMemoryRateLimiter.get_usage
MemUsageLocked(storage, identifier, config, window_key, current_time) ==
    LET reset_time == ResetTime(current_time, config.window_seconds)
    IN  IF window_key \notin DOMAIN storage
        THEN RateLimitResult(TRUE, config.requests_per_window, config.requests_per_window,
                             reset_time, 0, config.cost, identifier, window_key)
        ELSE LET current_count == storage[window_key].count
             IN  RateLimitResult(current_count < config.requests_per_window,
                     config.requests_per_window,
                     Max(0, config.requests_per_window - current_count),
                     reset_time,
                     IF current_count >= config.requests_per_window
                     THEN reset_time - current_time ELSE 0,
                     config.cost, identifier, window_key)

\* InMemoryRateLimiter.reset: the storage without the identifier's windows
\* a reset that removes nothing
MemReset_Nothing(storage, identifier) == storage

MemReset(storage, identifier) ==
    Restrict(storage, { k \in DOMAIN storage : ~StartsWith(k, identifier) })

\* InMemoryRateLimiter.cleanup(older_than): the storage it leaves
MemCleanup(storage, older_than) ==
    Restrict(storage, { k \in DOMAIN storage : ~(storage[k].created < older_than) })

\* ------------------------------------------------------- RedisRateLimiter
\* hashlib.md5(identifier.encode()).hexdigest()[:16]: an opaque digest, taken
\* to be collision-free on the identifiers of the model
KeyHash(identifier) == <<"md5">> \o identifier

\* _generate_key: f"{namespace}:{key_hash}"
_generate_key(identifier, namespace) == << namespace, KeyHash(identifier) >>

\* the keys of the server that have not expired at server time t
RedisLive(store, t) == Restrict(store, { k \in DOMAIN store : store[k].expire_at > t })

\* redis.call("GET", window_key), nil read as 0
RedisGet(store, key) == IF key \in DOMAIN store THEN store[key].value ELSE 0

\* _lua_script, run atomically by the server at time t with ARGV[4] = now:
\* the store it leaves and the reply it returns
LuaScript(store, key, window, limit, cost, now_arg, t) ==
    LET window_start == (now_arg \div window) * window
        window_key == Append(key, window_start)
        current == RedisGet(store, window_key)
        reset_time == window_start + window
    IN  IF current + cost > limit
        THEN [ store |-> store,
               reply |-> [ allowed |-> "0", limit |-> limit,
                           remaining |-> Max(0, limit - current),
                           reset_time |-> reset_time,
                           retry_after |-> reset_time - now_arg,
                           current |-> current, window_start |-> window_start ] ]
        ELSE [ store |-> [ k \in DOMAIN store \cup { window_key } |->
                             IF k = window_key
                             THEN [ value |-> current + cost, expire_at |-> t + window * 2 ]
                             ELSE store[k] ],
               reply |-> [ allowed |-> "1", limit |-> limit,
                           remaining |-> limit - (current + cost),
                           reset_time |-> reset_time,
                           retry_after |-> 0,
                           current |-> current + cost, window_start |-> window_start ] ]

\* RedisRateLimiter.check_rate_limit, lines 403-428: the reply parsed into a
\* RateLimitResult
RedisParseReply(reply, identifier, config, redis_key) ==
    RateLimitResult(reply.allowed = "1", reply.limit, reply.remaining,
                    reply.reset_time, reply.retry_after, config.cost, identifier,
                    Append(redis_key, reply.window_start))

\* RedisRateLimiter.check_rate_limit, lines 435-446: the fail-open result
RedisFallback(identifier, config, current_time) ==
    RateLimitResult(TRUE, config.requests_per_window, config.requests_per_window,
                    current_time + config.window_seconds, 0, config.cost, identifier,
                    << "fallback" >>)

\* RedisRateLimiter.get_usage on a reachable server
RedisUsage(store, identifier, config, current_time) ==
    LET redis_key == _generate_key(identifier, config.namespace)
        window_start == (current_time \div config.window_seconds) * config.window_seconds
        window_key == Append(redis_key, window_start)
        current_count == RedisGet(store, window_key)
        reset_time == window_start + config.window_seconds
    IN  RateLimitResult(current_count < config.requests_per_window,
            config.requests_per_window,
            Max(0, config.requests_per_window - current_count),
            reset_time,
            IF current_count >= config.requests_per_window
            THEN reset_time - current_time ELSE 0,
            config.cost, identifier, window_key)

\* RedisRateLimiter.reset on a reachable server: SCAN f"{redis_key}:*" and
\* DELETE what it matches
RedisReset(store, identifier, config) ==
    LET redis_key == _generate_key(identifier, config.namespace)
    IN  Restrict(store, { k \in DOMAIN store : SubSeq(k, 1, 2) # redis_key })

\* InMemoryRateLimiter.check_rate_limit as a whole: the sweep and
\* _get_window_key read the clock at t1, current_time is read at t2 >= t1
MemCheck(storage, last_cleanup, identifier, config, t1, t2) ==
    LET c == _cleanup_old_windows(storage, last_cleanup, t1)
        window_key == _get_window_key(identifier, config.window_seconds, t1)
        r == MemCheckLocked(c.storage, identifier, config, window_key, t2)
    IN  [ storage |-> r.storage, last_cleanup |-> c.last_cleanup, result |-> r.result ]

\* InMemoryRateLimiter.get_usage as a whole
MemUsage(storage, last_cleanup, identifier, config, t1, t2) ==
    LET c == _cleanup_old_windows(storage, last_cleanup, t1)
        window_key == _get_window_key(identifier, config.window_seconds, t1)
    IN  [ storage |-> c.storage, last_cleanup |-> c.last_cleanup,
          result |-> MemUsageLocked(c.storage, identifier, config, window_key, t2) ]

\* ------------------------------------------------------------------- state
VARIABLES
    callers,        \* the identifiers that call the limiter
    now,            \* time.time(), in seconds
    ticks,          \* clock advances taken so far
    backend,        \* "memory": InMemoryRateLimiter, "redis": RedisRateLimiter
    _storage,       \* InMemoryRateLimiter._storage: key -> [count, created]
    _last_cleanup,  \* InMemoryRateLimiter._last_cleanup
    redis,          \* the server's keys: key -> [value, expire_at]
    _script_sha,    \* RedisRateLimiter._script_sha: "None" or "sha"
    last,           \* the last call made on the limiter and what it returned
    run,            \* the consecutive check_rate_limit calls made on a fresh counter
    redisUp,        \* whether the server answers
    scriptCached,   \* whether the server still holds the loaded script
    faults,         \* faults injected so far
    call,           \* the RedisRateLimiter.check_rate_limit call in progress
    cfgCall,        \* the last RateLimitConfig(...) construction and its outcome
    names,          \* the collection names the callers use
    chunkChoices,   \* the chunk dictionaries the callers add
    stores,         \* VectorStoreManager.stores: collection_name -> VectorStore
    disk,           \* VECTOR_STORE_DIR: collection_name -> the saved artifacts
    vsLast,         \* the last vector store call and what it returned
    savedStats,     \* collection_name -> what the store held when it was last saved
    vsCalls,        \* how many vector store calls were made
    kv,             \* the keys RedisManager's server holds: key -> [value, ttl]
    kvLast,         \* the last RedisManager call and what it returned
    procs,          \* the concurrent check_rate_limit calls: caller -> its position and locals
    tally,          \* window key -> the total cost of the calls allowed on it
    concCfg,        \* the config the concurrent callers pass
    concCalls,      \* how many concurrent calls were started
    objs,           \* the VectorStore objects constructed: [collection_name, store], in order
    registry,       \* VectorStoreManager.stores as references: collection_name -> position in objs
    adders,         \* the concurrent add_document calls: caller -> its position and locals
    zsets,          \* the sorted sets of the auth RateLimiter: key -> [members, expire_at]
    admitted,       \* key -> the times of the requests the auth RateLimiter allowed, in order
    authLast,       \* the last auth RateLimiter call and what it returned
    authCalls,      \* how many auth RateLimiter calls were made
    loginNow,       \* time.time() as LoginSecurity reads it, in units of 1 / TicksPerSecond s
    loginTicks,     \* clock advances taken so far
    attemptsKey,    \* the server's key attempts:{username}: [value, expire_at]
    lockoutKey,     \* the server's key lockout:{username}: [value, expire_at]
    recorders,      \* the record_failed_attempt calls in progress: caller -> position and locals
    loginLast,      \* what the last check_login_attempts returned
    incrs,          \* how many failed attempts were counted by INCR
    lockoutDue,     \* the latest lockout_until a record_failed_attempt has stored
    pool,           \* ConnectionPool: its configuration and whether _pool is set
    conns,          \* the connections the asyncpg pool has opened: uuid -> application_name
    held,           \* the connections acquire() has returned and release() has not taken back
    tracked,        \* _tracked_connections: connection_id -> state
    idle_connections,   \* _idle_connections, a deque of connection ids
    active_connections, \* _active_connections, a set of connection ids
    poolLast,       \* the last acquire or release: operation and connection
    poolCalls       \* how many acquire and release calls were made

rlVars == << now, ticks, backend, _storage, _last_cleanup, redis, _script_sha, last, run >>
faultVars == << redisUp, scriptCached, faults, call >>
vsVars == << names, chunkChoices, stores, disk, vsLast, savedStats, vsCalls >>
kvVars == << kv, kvLast >>
concVars == << procs, tally, concCfg, concCalls >>
raceVars == << objs, registry, adders >>
authVars == << zsets, admitted, authLast, authCalls >>
loginVars == << loginNow, loginTicks, attemptsKey, lockoutKey, recorders, loginLast, incrs, lockoutDue >>
poolVars == << pool, conns, held, tracked, idle_connections, active_connections, poolLast, poolCalls >>
laterVars == << loginVars, poolVars >>
extVars == << kvVars, concVars, raceVars, authVars, laterVars >>
vars == << callers, now, ticks, backend, _storage, _last_cleanup, redis, _script_sha, last, run,
           redisUp, scriptCached, faults, call, cfgCall, names, chunkChoices, stores, disk, vsLast, savedStats, vsCalls, extVars >>

EmptyMap == [ k \in {} |-> 0 ]
NoConfig == [ requests_per_window |-> 0, window_seconds |-> 0, cost |-> 0, namespace |-> "" ]
NoResult == RateLimitResult(FALSE, 0, 0, 0, 0, 0, << >>, NoKey)
NoCall == [ pc |-> "idle", identifier |-> << >>, config |-> NoConfig, current_time |-> 0,
            failed |-> FALSE ]

\* the record of a call: what was called, what it returned, how many keys it
\* removed, whether a backend operation failed in it, and whether it is a
\* check_rate_limit that follows a reset of the same identifier and config
\* that removed a window
Called(op, identifier, config, result, removed, failed) ==
    [ op |-> op, identifier |-> identifier, config |-> config, result |-> result,
      removed |-> removed, failed |-> failed,
      after_reset |-> /\ op = "check" /\ last.op = "reset" /\ last.removed > 0
                      /\ last.identifier = identifier /\ last.config = config ]

\* the threads that call the limiter at the same time
Procs == { 1, 2 }
NoProc == [ pc |-> "idle", t |-> 0, window_key |-> << >>, current_time |-> 0 ]

NoAdder == [ pc |-> "idle", collection_name |-> "", obj |-> 0, encode_ok |-> TRUE,
             returned |-> << >>, raised |-> FALSE ]

NoAuth == [ key |-> "", allowed |-> FALSE, remaining |-> 0, retry_after |-> 0, count |-> 0 ]

\* a key the server does not hold
NoEntry == [ value |-> 0, expire_at |-> 0 ]
NoRecorder == [ pc |-> "idle", attempts |-> 0 ]
NoLogin == [ made |-> FALSE, allowed |-> FALSE, remaining |-> 0 ]

NoPool == [ min_connections |-> 0, application_name |-> << >>, state |-> "none" ]
NoPoolCall == [ op |-> "none", conn |-> << >> ]

NoSet == [ op |-> "none", key |-> "", value |-> "", ttl |-> << >>, nx |-> FALSE, xx |-> FALSE,
           returned |-> FALSE, raised |-> FALSE ]

\* the subsystems that are not the limiter or the vector store, before any call
InitExt ==
    /\ kv = EmptyMap
    /\ kvLast = NoSet
    /\ procs = [ p \in Procs |-> NoProc ]
    /\ tally = EmptyMap
    /\ concCalls = 0
    /\ objs = << >>
    /\ registry = EmptyMap
    /\ adders = [ p \in Procs |-> NoAdder ]
    /\ zsets = EmptyMap
    /\ admitted = EmptyMap
    /\ authLast = NoAuth
    /\ authCalls = 0
    /\ loginNow = 0
    /\ loginTicks = 0
    /\ attemptsKey = NoEntry
    /\ lockoutKey = NoEntry
    /\ recorders = [ p \in Procs |-> NoRecorder ]
    /\ loginLast = NoLogin
    /\ incrs = 0
    /\ lockoutDue = 0
    /\ pool = NoPool
    /\ conns = EmptyMap
    /\ held = {}
    /\ tracked = EmptyMap
    /\ idle_connections = << >>
    /\ active_connections = {}
    /\ poolLast = NoPoolCall
    /\ poolCalls = 0

\* the state every specification starts from, but for the backend and callers
InitCommon ==
    /\ InitExt
    /\ now = StartTime
    /\ ticks = 0
    /\ _storage = EmptyMap
    /\ _last_cleanup = StartTime
    /\ redis = EmptyMap
    /\ _script_sha = "None"
    /\ last = [ op |-> "none", identifier |-> << >>, config |-> NoConfig,
                result |-> NoResult, removed |-> 0, failed |-> FALSE,
                after_reset |-> FALSE ]
    /\ run = 0
    /\ redisUp = TRUE
    /\ scriptCached = FALSE
    /\ faults = 0
    /\ call = NoCall
    /\ cfgCall = [ made |-> FALSE, args |-> << 0, 0, 0, "" >>, outcome |-> NoConfig ]
    /\ stores = EmptyMap
    /\ disk = EmptyMap
    /\ vsLast = [ op |-> "none", collection_name |-> "", returned |-> << >>, raised |-> FALSE ]
    /\ savedStats = EmptyMap
    /\ vsCalls = 0

Init ==
    /\ InitCommon
    /\ concCfg = NoConfig
    /\ backend \in { "memory", "redis" }
    /\ callers = { << "u" >> }
    /\ names = {}
    /\ chunkChoices = {}

\* the value of the window counter `key` names (0 when there is none)
Counter(storage, store, key) ==
    IF backend = "memory"
    THEN (IF key \in DOMAIN storage THEN storage[key].count ELSE 0)
    ELSE RedisGet(store, key)

\* whether a call that returned `result` read the clock inside one window
InsideWindow(config, result) ==
    result.reset_time = KeyWindowStart(result.window_key) + config.window_seconds

\* the length of the run of consecutive check_rate_limit calls of one
\* identifier and config inside one window that began on a counter that did
\* not exist (0: no such run), after a call that returned `result`; `fresh`
\* says the counter did not exist when the call began
NextRun(identifier, config, result, fresh) ==
    IF /\ run >= 1 /\ last.op = "check"
       /\ last.identifier = identifier /\ last.config = config
       /\ last.result.window_key = result.window_key
       /\ InsideWindow(config, result)
    THEN (IF run > config.requests_per_window THEN run ELSE run + 1)
    ELSE IF fresh /\ InsideWindow(config, result) THEN 1
    ELSE 0

\* a call may create a window record only while the store holds fewer than
\* MaxKeys
Room(keys, key) == key \in keys \/ Cardinality(keys) < MaxKeys

\* the clock advances
Tick(d) ==
    /\ ticks < MaxTicks
    /\ now' = now + d
    /\ ticks' = ticks + 1
    /\ UNCHANGED << backend, _storage, _last_cleanup, redis, _script_sha, last, run >>
    /\ UNCHANGED << faultVars, cfgCall, extVars, callers, vsVars >>

\* InMemoryRateLimiter.check_rate_limit(identifier, config); the clock moves
\* by d between its reads
InMemory_check_rate_limit(identifier, config, d) ==
    /\ backend = "memory"
    /\ ticks + (IF d > 0 THEN 1 ELSE 0) <= MaxTicks
    /\ LET out == MemCheck(_storage, _last_cleanup, identifier, config, now, now + d)
       IN  /\ Room(DOMAIN _cleanup_old_windows(_storage, _last_cleanup, now).storage,
                   out.result.window_key)
           /\ _storage' = out.storage
           /\ _last_cleanup' = out.last_cleanup
           /\ last' = Called("check", identifier, config, out.result,
                             Cardinality(DOMAIN _storage
                               \ DOMAIN _cleanup_old_windows(_storage, _last_cleanup, now).storage),
                             FALSE)
           /\ run' = NextRun(identifier, config, out.result,
                             out.result.window_key \notin DOMAIN _storage)
    /\ now' = now + d
    /\ ticks' = ticks + (IF d > 0 THEN 1 ELSE 0)
    /\ UNCHANGED << backend, redis, _script_sha, faultVars, cfgCall, extVars, callers, vsVars >>

\* InMemoryRateLimiter.get_usage(identifier, config)
InMemory_get_usage(identifier, config, d) ==
    /\ backend = "memory"
    /\ ticks + (IF d > 0 THEN 1 ELSE 0) <= MaxTicks
    /\ LET out == MemUsage(_storage, _last_cleanup, identifier, config, now, now + d)
       IN  /\ _storage' = out.storage
           /\ _last_cleanup' = out.last_cleanup
           /\ last' = Called("get_usage", identifier, config, out.result,
                             Cardinality(DOMAIN _storage \ DOMAIN out.storage), FALSE)
    /\ run' = 0
    /\ now' = now + d
    /\ ticks' = ticks + (IF d > 0 THEN 1 ELSE 0)
    /\ UNCHANGED << backend, redis, _script_sha, faultVars, cfgCall, extVars, callers, vsVars >>

\* InMemoryRateLimiter.reset(identifier, config)
InMemory_reset(identifier, config) ==
    /\ backend = "memory"
    /\ _storage' = MemReset(_storage, identifier)
    /\ last' = Called("reset", identifier, config, NoResult,
                      Cardinality(DOMAIN _storage \ DOMAIN MemReset(_storage, identifier)), FALSE)
    /\ run' = 0
    /\ UNCHANGED << now, ticks, backend, _last_cleanup, redis, _script_sha, faultVars, cfgCall, extVars, callers, vsVars >>

\* InMemoryRateLimiter.cleanup(older_than): older_than = None when ~given,
\* older_than = time.time() - age otherwise
InMemory_cleanup(given, age) ==
    /\ backend = "memory"
    /\ LET older_than == IF given THEN now - age ELSE now - CleanupDefaultAge
       IN  /\ _storage' = MemCleanup(_storage, older_than)
           /\ last' = Called("cleanup", << >>, NoConfig, NoResult,
                             Cardinality(DOMAIN _storage \ DOMAIN MemCleanup(_storage, older_than)), FALSE)
    /\ run' = 0
    /\ UNCHANGED << now, ticks, backend, _last_cleanup, redis, _script_sha, faultVars, cfgCall, extVars, callers, vsVars >>

\* RedisRateLimiter.check_rate_limit's EVALSHA on a server that answers and
\* holds the script: the store it leaves and the parsed result
RedisEval(store, identifier, config, current_time, t) ==
    LET redis_key == _generate_key(identifier, config.namespace)
        out == LuaScript(RedisLive(store, t), redis_key, config.window_seconds,
                         config.requests_per_window, config.cost, current_time, t)
    IN  [ store |-> out.store,
          result |-> RedisParseReply(out.reply, identifier, config, redis_key) ]

\* RedisRateLimiter.check_rate_limit(identifier, config) on a server that
\* answers: _ensure_script_loaded, then the script
Redis_check_rate_limit(identifier, config) ==
    /\ backend = "redis"
    /\ redisUp /\ call.pc = "idle"
    /\ _script_sha = "None" \/ scriptCached
    /\ LET out == RedisEval(redis, identifier, config, now, now)
       IN  /\ Room(DOMAIN RedisLive(redis, now), out.result.window_key)
           /\ redis' = out.store
           /\ last' = Called("check", identifier, config, out.result, 0, FALSE)
           /\ run' = NextRun(identifier, config, out.result,
                             out.result.window_key \notin DOMAIN RedisLive(redis, now))
    /\ _script_sha' = "sha"
    /\ scriptCached' = TRUE
    /\ UNCHANGED << now, ticks, backend, _storage, _last_cleanup, redisUp, faults, call, cfgCall, extVars, callers, vsVars >>

\* RedisRateLimiter.get_usage(identifier, config) on a server that answers
Redis_get_usage(identifier, config) ==
    /\ backend = "redis"
    /\ redisUp /\ call.pc = "idle"
    /\ last' = Called("get_usage", identifier, config,
                      RedisUsage(RedisLive(redis, now), identifier, config, now), 0, FALSE)
    /\ run' = 0
    /\ UNCHANGED << now, ticks, backend, _storage, _last_cleanup, redis, _script_sha,
                    faultVars, cfgCall, extVars, callers, vsVars >>

\* RedisRateLimiter.reset(identifier, config) on a server that answers
Redis_reset(identifier, config) ==
    /\ backend = "redis"
    /\ redisUp /\ call.pc = "idle"
    /\ redis' = RedisReset(RedisLive(redis, now), identifier, config)
    /\ last' = Called("reset", identifier, config, NoResult,
                      Cardinality(DOMAIN RedisLive(redis, now)
                                  \ DOMAIN RedisReset(RedisLive(redis, now), identifier, config)),
                      FALSE)
    /\ run' = 0
    /\ UNCHANGED << now, ticks, backend, _storage, _last_cleanup, _script_sha,
                    faultVars, cfgCall, extVars, callers, vsVars >>

Next ==
    \/ \E d \in Steps : Tick(d)
    \/ \E i \in callers, c \in Configs, d \in Delays :
         InMemory_check_rate_limit(i, c, d)
    \/ \E i \in callers, c \in Configs, d \in Delays :
         InMemory_get_usage(i, c, d)
    \/ \E i \in callers, c \in Configs : InMemory_reset(i, c)
    \/ \E g \in BOOLEAN, a \in CleanupAges : InMemory_cleanup(g, a)
    \/ \E i \in callers, c \in Configs : Redis_check_rate_limit(i, c)
    \/ \E i \in callers, c \in Configs : Redis_get_usage(i, c)
    \/ \E i \in callers, c \in Configs : Redis_reset(i, c)

Spec == Init /\ [][Next]_vars

\* two callers, one identifier being the other followed by ":x"; the clock
\* stands still
InitTwo ==
    /\ InitCommon
    /\ concCfg = NoConfig
    /\ backend \in { "memory", "redis" }
    /\ callers = Identifiers
    /\ names = {}
    /\ chunkChoices = {}

NextTwo ==
    \/ \E i \in callers, c \in Configs : InMemory_check_rate_limit(i, c, 0)
    \/ \E i \in callers, c \in Configs : InMemory_reset(i, c)
    \/ \E i \in callers, c \in Configs : Redis_check_rate_limit(i, c)
    \/ \E i \in callers, c \in Configs : Redis_reset(i, c)

SpecTwo == InitTwo /\ [][NextTwo]_vars

\* ---------------------------------------- RateLimitConfig construction
\* RateLimitConfig(requests_per_window=n, window_seconds=w, cost=c, namespace=ns)
Construct(n, w, c, ns) ==
    /\ cfgCall' = [ made |-> TRUE, args |-> << n, w, c, ns >>,
                    outcome |-> RateLimitConfig(n, w, c, ns) ]
    /\ UNCHANGED << rlVars, faultVars, callers, vsVars, extVars >>

InitCfg ==
    /\ InitCommon
    /\ concCfg = NoConfig
    /\ backend = "memory"
    /\ callers = {}
    /\ names = {}
    /\ chunkChoices = {}

NextCfg ==
    \E n \in ArgCounts, w \in ArgWindows, c \in ArgCounts, ns \in Namespaces :
        Construct(n, w, c, ns)

SpecCfg == InitCfg /\ [][NextCfg]_vars

\* ------------------------------- RedisRateLimiter on a server that may fail
\* the server stops answering (network, authentication)
Redis_down ==
    /\ redisUp /\ faults < MaxFaults
    /\ redisUp' = FALSE
    /\ faults' = faults + 1
    /\ UNCHANGED << rlVars, scriptCached, call, cfgCall, extVars, callers, vsVars >>

\* the server answers again
Redis_recover ==
    /\ ~redisUp
    /\ redisUp' = TRUE
    /\ UNCHANGED << rlVars, scriptCached, faults, call, cfgCall, extVars, callers, vsVars >>

\* the server loses its script cache (SCRIPT FLUSH, a restart)
Script_flush ==
    /\ scriptCached /\ faults < MaxFaults
    /\ scriptCached' = FALSE
    /\ faults' = faults + 1
    /\ UNCHANGED << rlVars, redisUp, call, cfgCall, extVars, callers, vsVars >>

\* a caller enters RedisRateLimiter.check_rate_limit(identifier, config)
Redis_call_begin(identifier, config) ==
    /\ call.pc = "idle"
    /\ call' = [ pc |-> "ensure", identifier |-> identifier, config |-> config,
                 current_time |-> now, failed |-> FALSE ]
    /\ UNCHANGED << rlVars, redisUp, scriptCached, faults, cfgCall, extVars, callers, vsVars >>

\* _ensure_script_loaded, the sha already known: current_time is read next
Redis_ensure_known ==
    /\ call.pc = "ensure" /\ _script_sha # "None"
    /\ call' = [ call EXCEPT !.pc = "evalsha", !.current_time = now ]
    /\ UNCHANGED << rlVars, redisUp, scriptCached, faults, cfgCall, extVars, callers, vsVars >>

\* _ensure_script_loaded, SCRIPT LOAD answered
Redis_ensure_load ==
    /\ call.pc = "ensure" /\ _script_sha = "None" /\ redisUp
    /\ _script_sha' = "sha"
    /\ scriptCached' = TRUE
    /\ call' = [ call EXCEPT !.pc = "evalsha", !.current_time = now ]
    /\ UNCHANGED << now, ticks, backend, _storage, _last_cleanup, redis, last, run,
                    redisUp, faults, cfgCall, extVars, callers, vsVars >>

\* _ensure_script_loaded, SCRIPT LOAD failed: the call is outside the try
\* block (line 386), the exception leaves check_rate_limit
Redis_ensure_raise ==
    /\ call.pc = "ensure" /\ _script_sha = "None" /\ ~redisUp
    /\ last' = Called("check_raised", call.identifier, call.config, NoResult, 0, TRUE)
    /\ run' = 0
    /\ call' = NoCall
    /\ UNCHANGED << now, ticks, backend, _storage, _last_cleanup, redis, _script_sha,
                    redisUp, scriptCached, faults, cfgCall, extVars, callers, vsVars >>

\* EVALSHA failed (lines 435-446): the fail-open result
Redis_evalsha_error ==
    /\ call.pc = "evalsha" /\ ~redisUp
    /\ last' = Called("check", call.identifier, call.config,
                      RedisFallback(call.identifier, call.config, call.current_time),
                      0, TRUE)
    /\ run' = 0
    /\ call' = NoCall
    /\ UNCHANGED << now, ticks, backend, _storage, _last_cleanup, redis, _script_sha,
                    redisUp, scriptCached, faults, cfgCall, extVars, callers, vsVars >>

\* EVALSHA answered NOSCRIPT (lines 430-433): forget the sha and call
\* check_rate_limit again
Redis_evalsha_noscript ==
    /\ call.pc = "evalsha" /\ redisUp /\ ~scriptCached
    /\ _script_sha' = "None"
    /\ call' = [ call EXCEPT !.pc = "ensure" ]
    /\ UNCHANGED << now, ticks, backend, _storage, _last_cleanup, redis, last, run,
                    redisUp, scriptCached, faults, cfgCall, extVars, callers, vsVars >>

\* EVALSHA ran the script (lines 393-428)
Redis_evalsha_ok ==
    /\ call.pc = "evalsha" /\ redisUp /\ scriptCached
    /\ LET out == RedisEval(redis, call.identifier, call.config, call.current_time, now)
       IN  /\ Room(DOMAIN RedisLive(redis, now), out.result.window_key)
           /\ redis' = out.store
           /\ last' = Called("check", call.identifier, call.config, out.result, 0, call.failed)
    /\ run' = 0
    /\ call' = NoCall
    /\ UNCHANGED << now, ticks, backend, _storage, _last_cleanup, _script_sha,
                    redisUp, scriptCached, faults, cfgCall, extVars, callers, vsVars >>

InitFault ==
    /\ InitCommon
    /\ concCfg = NoConfig
    /\ backend = "redis"
    /\ callers = { << "u" >> }
    /\ names = {}
    /\ chunkChoices = {}

NextFault ==
    \/ \E d \in Steps : Tick(d)
    \/ Redis_down
    \/ Redis_recover
    \/ Script_flush
    \/ \E i \in callers, c \in Configs : Redis_call_begin(i, c)
    \/ Redis_ensure_known
    \/ Redis_ensure_load
    \/ Redis_ensure_raise
    \/ Redis_evalsha_error
    \/ Redis_evalsha_noscript
    \/ Redis_evalsha_ok

SpecFault == InitFault /\ [][NextFault]_vars

\* the server loses its script cache, as often as it will
Script_lost ==
    /\ scriptCached
    /\ scriptCached' = FALSE
    /\ UNCHANGED << rlVars, redisUp, faults, call, cfgCall, extVars, callers, vsVars >>

\* the steps of the check_rate_limit call in progress
CallStep ==
    \/ Redis_ensure_known
    \/ Redis_ensure_load
    \/ Redis_ensure_raise
    \/ Redis_evalsha_error
    \/ Redis_evalsha_noscript
    \/ Redis_evalsha_ok

NextRetry ==
    \/ Redis_down
    \/ Redis_recover
    \/ Script_lost
    \/ \E i \in callers, c \in Configs : Redis_call_begin(i, c)
    \/ Redis_ensure_known
    \/ Redis_ensure_load
    \/ Redis_ensure_raise
    \/ Redis_evalsha_error
    \/ Redis_evalsha_noscript
    \/ Redis_evalsha_ok

\* the event loop keeps running the call in progress; nothing is assumed of
\* the server
SpecRetry == InitFault /\ [][NextRetry]_vars /\ WF_vars(CallStep)

\* ------------------------------------------------------------ vector store
Min(a, b) == IF a <= b THEN a ELSE b

\* a chunk dictionary as the caller passes it: its text and its "page" entry
\* (0: the dictionary has no "page" key)
Chunk(text, page) == [ text |-> text, page |-> page ]

\* text.strip()
Strip(text) == IF text = " " THEN "" ELSE text

\* EmbeddingService.embed_texts up to model.encode: the texts it embeds
CleanTexts(texts) ==
    LET stripped == [ i \in 1 .. Len(texts) |-> Strip(texts[i]) ]
    IN  SelectSeq(stripped, LAMBDA t : t # "")

\* int(chunk_id[:8], 16)
FaissId(chunk_id) == chunk_id[1]

\* VectorStore.__init__ followed by create_index: an empty IndexIDMap2
NewStore == [ index |-> << >>, metadata |-> << >>, total_chunks |-> 0 ]

\* the batch loop of add_texts (lines 95-112) from the given position on; an
\* index entry is the id and the vector handed to add_with_ids, and the
\* chunk whose text the vector embeds;
\* encode_ok says whether model.encode answers during this call
RECURSIVE EmbedBatches(_, _, _, _, _, _)
EmbedBatches(index, total_chunks, texts, ids, batch_size, encode_ok) ==
    IF texts = << >>
    THEN [ index |-> index, total_chunks |-> total_chunks, raised |-> FALSE ]
    ELSE LET n == Min(batch_size, Len(texts))
             batch_texts == SubSeq(texts, 1, n)
             batch_ids == SubSeq(ids, 1, n)
             clean == CleanTexts(batch_texts)
             rest_texts == SubSeq(texts, n + 1, Len(texts))
             rest_ids == SubSeq(ids, n + 1, Len(ids))
         IN  IF clean = << >>
             THEN \* embed_texts returned an empty array: continue
                  EmbedBatches(index, total_chunks, rest_texts, rest_ids,
                               batch_size, encode_ok)
             ELSE IF ~encode_ok
             THEN \* RuntimeError out of embed_texts
                  [ index |-> index, total_chunks |-> total_chunks, raised |-> TRUE ]
             ELSE IF Len(clean) # n
             THEN \* add_with_ids refuses n ids for fewer vectors
                  [ index |-> index, total_chunks |-> total_chunks, raised |-> TRUE ]
             ELSE EmbedBatches(
                      index \o [ i \in 1 .. n |->
                                   [ id |-> FaissId(batch_ids[i]), vec |-> clean[i],
                                     chunk |-> batch_ids[i] ] ],
                      total_chunks + n, rest_texts, rest_ids, batch_size, encode_ok)

\* VectorStore.add_texts(chunks, batch_size); ids are the uuids it draws
add_texts(store, chunks, batch_size, ids, encode_ok) ==
    IF chunks = << >>
    THEN [ store |-> store, returned |-> << >>, raised |-> FALSE ]
    ELSE LET metadata == store.metadata \o
                 [ i \in 1 .. Len(chunks) |->
                     [ chunk_id |-> ids[i], text |-> chunks[i].text, page |-> chunks[i].page ] ]
             texts_to_embed == [ i \in 1 .. Len(chunks) |-> chunks[i].text ]
             out == EmbedBatches(store.index, store.total_chunks, texts_to_embed, ids,
                                 batch_size, encode_ok)
         IN  [ store    |-> [ index |-> out.index, metadata |-> metadata,
                              total_chunks |-> out.total_chunks ],
               returned |-> IF out.raised THEN << >> ELSE ids,
               raised   |-> out.raised ]

\* VectorStore.delete_chunks(chunk_ids)
delete_chunks(store, chunk_ids) ==
    LET ids_to_remove == { FaissId(c) : c \in { x \in chunk_ids : FaissId(x) >= 0 } }
        index == SelectSeq(store.index, LAMBDA v : v.id \notin ids_to_remove)
        metadata == SelectSeq(store.metadata, LAMBDA m : m.chunk_id \notin chunk_ids)
        deleted_count == Len(store.metadata) - Len(metadata)
    IN  IF chunk_ids = {} \/ ids_to_remove = {}
        THEN [ store |-> store, returned |-> 0 ]
        ELSE [ store |-> [ index |-> index, metadata |-> metadata,
                           total_chunks |-> store.total_chunks - deleted_count ],
               returned |-> deleted_count ]

\* the chunk ids in use anywhere
UsedIds(ss) ==
    UNION { { ss[n].metadata[i].chunk_id : i \in 1 .. Len(ss[n].metadata) } : n \in DOMAIN ss }

\* sequences of length n of distinct elements of S
DistinctSeqs(S, n) ==
    { q \in [ 1 .. n -> S ] : \A i, j \in 1 .. n : q[i] = q[j] => i = j }

SeqsUpTo(S, n) == UNION { [ 1 .. k -> S ] : k \in 0 .. n }

\* VectorStoreManager.get_store(collection_name)
get_store(ss, collection_name) ==
    IF collection_name \in DOMAIN ss THEN ss[collection_name] ELSE NewStore

Put(f, k, v) == [ x \in DOMAIN f \cup { k } |-> IF x = k THEN v ELSE f[x] ]

\* one artifact of a collection directory: absent, readable, or unreadable
File(content) == [ state |-> "ok", content |-> content ]
NoInfo == [ collection_name |-> "", total_chunks |-> 0 ]
NoFiles ==
    [ faiss_index  |-> [ state |-> "absent", content |-> << >> ],
      metadata_pkl |-> [ state |-> "absent", content |-> << >> ],
      info_json    |-> [ state |-> "absent", content |-> NoInfo ] ]

\* the artifacts under VECTOR_STORE_DIR / collection_name
Files(d, collection_name) ==
    IF collection_name \in DOMAIN d THEN d[collection_name] ELSE NoFiles

\* VectorStore.save(): the artifacts it leaves
save(store, collection_name) ==
    [ faiss_index  |-> File(store.index),
      metadata_pkl |-> File(store.metadata),
      info_json    |-> File([ collection_name |-> collection_name,
                              total_chunks |-> store.total_chunks ]) ]

\* a load that takes the chunk count from the index it read
load_CountFromIndex(store, files) ==
    IF files.faiss_index.state # "ok"
    THEN [ store |-> store, returned |-> FALSE ]
    ELSE [ store |-> [ index |-> files.faiss_index.content,
                       metadata |-> files.metadata_pkl.content,
                       total_chunks |-> Len(files.faiss_index.content) ],
           returned |-> TRUE ]

\* VectorStore.load() on `store` from the artifacts `files`: an unreadable
\* artifact raises inside the try block, which returns False
load(store, files) ==
    IF files.faiss_index.state # "ok"
    THEN [ store |-> store, returned |-> FALSE ]
    ELSE LET s1 == [ store EXCEPT !.index = files.faiss_index.content ]
             s2 == IF files.metadata_pkl.state = "ok"
                   THEN [ s1 EXCEPT !.metadata = files.metadata_pkl.content ]
                   ELSE s1
             s3 == IF files.info_json.state = "ok"
                   THEN [ s2 EXCEPT !.total_chunks = files.info_json.content.total_chunks ]
                   ELSE s2
         IN  IF files.metadata_pkl.state = "corrupt"
             THEN [ store |-> s1, returned |-> FALSE ]
             ELSE IF files.info_json.state = "corrupt"
             THEN [ store |-> s2, returned |-> FALSE ]
             ELSE [ store |-> s3, returned |-> TRUE ]

\* VectorStore.get_stats()
get_stats(store) ==
    [ total_chunks |-> store.total_chunks, index_size |-> Len(store.index) ]

\* what a manager reports of a store and holds as its chunk records
StatsOf(store) == [ total_chunks |-> get_stats(store).total_chunks,
                    metadata |-> store.metadata ]

\* VectorStoreManager.load_existing_stores(): the stores it registers
load_existing_stores(d) ==
    LET named == { dir \in DOMAIN d : Len(PathOf(dir)) = 1 /\ d[dir].info_json.state = "ok" }
        loaded == { dir \in named :
                      load(NewStore, Files(d, d[dir].info_json.content.collection_name)).returned }
    IN  [ n \in { d[dir].info_json.content.collection_name : dir \in loaded } |->
            load(NewStore, Files(d, n)).store ]

\* VectorStoreManager.add_document(collection_name, chunks, batch_size)
add_document(collection_name, chunks, batch_size, ids, encode_ok) ==
    LET store == get_store(stores, collection_name)
        out == add_texts(store, chunks, batch_size, ids, encode_ok)
    IN  /\ vsCalls < MaxCalls
        /\ vsCalls' = vsCalls + 1
        /\ Len(store.metadata) + Len(chunks) <= MaxChunks
        /\ stores' = Put(stores, collection_name, out.store)
        /\ disk' = IF out.raised THEN disk
                   ELSE Put(disk, collection_name, save(out.store, collection_name))
        /\ savedStats' = IF out.raised THEN savedStats
                         ELSE Put(savedStats, collection_name, StatsOf(out.store))
        /\ vsLast' = [ op |-> "add_document", collection_name |-> collection_name,
                       returned |-> out.returned, raised |-> out.raised,
                       args |-> [ encode_ok |-> encode_ok ] ]
        /\ UNCHANGED << rlVars, faultVars, cfgCall, extVars, callers, names, chunkChoices >>

\* delete_chunks(chunk_ids) on the store of a collection
VectorStore_delete_chunks(collection_name, chunk_ids) ==
    /\ collection_name \in DOMAIN stores
    /\ vsCalls < MaxCalls
    /\ vsCalls' = vsCalls + 1
    /\ LET out == delete_chunks(stores[collection_name], chunk_ids)
       IN  /\ stores' = Put(stores, collection_name, out.store)
           /\ vsLast' = [ op |-> "delete_chunks", collection_name |-> collection_name,
                          returned |-> out.returned, raised |-> FALSE,
                          args |-> [ chunk_ids |-> chunk_ids ] ]
    /\ UNCHANGED << rlVars, faultVars, cfgCall, extVars, callers, names, chunkChoices, disk, savedStats >>

\* the inner product (in hundredths) of the normalized embeddings of two
\* stripped texts: 1 for the same text, less for different ones
Similarity(q, vec) == IF q = vec THEN 100 ELSE 60

\* x placed in s, sorted by descending similarity_score, behind every entry
\* that scores at least as much
InsertByScore(x, s) ==
    LET n == Cardinality({ i \in 1 .. Len(s) : s[i].similarity_score >= x.similarity_score })
    IN  SubSeq(s, 1, n) \o << x >> \o SubSeq(s, n + 1, Len(s))

\* list.sort(key=similarity_score, reverse=True): stable, descending
RECURSIVE SortByScore(_)
SortByScore(s) ==
    IF s = << >> THEN << >>
    ELSE InsertByScore(s[Len(s)], SortByScore(SubSeq(s, 1, Len(s) - 1)))

\* self.index.search(query_embedding, k): the k best entries, best first
index_search(index, q, k) ==
    LET scored == [ i \in 1 .. Len(index) |->
                      [ id |-> index[i].id, chunk |-> index[i].chunk,
                        similarity_score |-> Similarity(q, index[i].vec) ] ]
        ranked == SortByScore(scored)
    IN  SubSeq(ranked, 1, Min(k, Len(ranked)))

\* a search result: the chunk record with its score
Result(meta, collection_name, score) ==
    [ chunk_id |-> meta.chunk_id, text |-> meta.text, page |-> meta.page,
      collection_name |-> collection_name, similarity_score |-> score ]

\* the end of similarity_search: the hits below score_threshold are
\* discarded, each other hit is returned as its chunk record with the score
HitResults(store, collection_name, hits, score_threshold) ==
    LET kept == SelectSeq(hits, LAMBDA h :
                    /\ h.similarity_score >= score_threshold
                    /\ \E i \in 1 .. Len(store.metadata) : store.metadata[i].chunk_id = h.chunk)
        MetaOf(h) == store.metadata[CHOOSE i \in 1 .. Len(store.metadata) :
                                       store.metadata[i].chunk_id = h.chunk]
    IN  [ i \in 1 .. Len(kept) |->
            Result(MetaOf(kept[i]), collection_name, kept[i].similarity_score) ]

\* what similarity_search returns when the embedding or the index search
\* fails inside its try block
SearchFailed == << >>

\* VectorStore.similarity_search(query, k, score_threshold)
similarity_search(store, collection_name, query, k, score_threshold) ==
    IF store.total_chunks = 0 THEN << >>
    ELSE LET kk == Min(k, store.total_chunks)
             query_embedding == CleanTexts(<< query >>)
         IN  IF query_embedding = << >> \/ kk <= 0
             THEN SearchFailed
             ELSE HitResults(store, collection_name,
                             index_search(store.index, query_embedding[1], kk),
                             score_threshold)

\* `key in result and result[key] != value` for every entry of filters
\* (a dictionary over the key "page")
Matches(result, filters) ==
    \A key \in DOMAIN filters : ~(result.page # 0 /\ result.page # filters[key])

\* VectorStore.search_with_filters(query, k, filters, score_threshold)
search_with_filters(store, collection_name, query, k, filters, score_threshold) ==
    LET results == similarity_search(store, collection_name, query, k * 2, score_threshold)
        filtered_results == SelectSeq(results, LAMBDA r : Matches(r, filters))
    IN  IF DOMAIN filters = {} \/ results = << >>
        THEN SubSeq(results, 1, Min(k, Len(results)))
        ELSE SubSeq(filtered_results, 1, Min(k, Len(filtered_results)))

\* a search that reaches its store through get_store
search_ViaGetStore(ss, collection_name, query, k, filters, score_threshold) ==
    [ stores   |-> Put(ss, collection_name, get_store(ss, collection_name)),
      returned |-> search_with_filters(get_store(ss, collection_name), collection_name,
                                       query, k, filters, score_threshold) ]

\* VectorStoreManager.search(collection_name, query, k, filters,
\* score_threshold): self.stores as it leaves it, and what it returns
search(ss, collection_name, query, k, filters, score_threshold) ==
    [ stores   |-> ss,
      returned |-> IF collection_name \notin DOMAIN ss THEN << >>
                   ELSE search_with_filters(ss[collection_name], collection_name, query,
                                            k, filters, score_threshold) ]

\* the loop of search_all over collection_names: the extended all_results
RECURSIVE AllResults(_, _, _, _, _)
AllResults(ss, query, collection_names, k_per_collection, score_threshold) ==
    IF collection_names = << >> THEN << >>
    ELSE LET collection_name == collection_names[1]
             results == IF collection_name \in DOMAIN ss
                        THEN similarity_search(ss[collection_name], collection_name, query,
                                               k_per_collection, score_threshold)
                        ELSE << >>
         IN  results \o AllResults(ss, query, SubSeq(collection_names, 2, Len(collection_names)),
                                   k_per_collection, score_threshold)

\* the deduplication loop of search_all: the first result of every text
RECURSIVE Unique(_, _)
Unique(results, seen_texts) ==
    IF results = << >> THEN << >>
    ELSE LET text == results[1].text
             rest == SubSeq(results, 2, Len(results))
         IN  IF text # "" /\ text \notin seen_texts
             THEN << results[1] >> \o Unique(rest, seen_texts \cup { text })
             ELSE Unique(rest, seen_texts)

\* a search_all that sorts the merged results and keeps them all
search_all_NoDedup(ss, query, collection_names, k_per_collection, score_threshold) ==
    SortByScore(AllResults(ss, query, collection_names, k_per_collection,
                           score_threshold))

\* VectorStoreManager.search_all(query, collection_names, k_per_collection,
\* score_threshold), collection_names given
search_all(ss, query, collection_names, k_per_collection, score_threshold) ==
    Unique(SortByScore(AllResults(ss, query, collection_names, k_per_collection,
                                  score_threshold)), {})

\* search(...) called on the manager
VectorStoreManager_search(collection_name, query, k, filters, score_threshold) ==
    /\ LET out == search(stores, collection_name, query, k, filters, score_threshold)
       IN  /\ vsLast' = [ op |-> "search", collection_name |-> collection_name,
                          returned |-> out.returned,
                          raised |-> FALSE,
                          args |-> [ query |-> query, k |-> k, filters |-> filters,
                                     score_threshold |-> score_threshold ] ]
           /\ stores' = out.stores
    /\ UNCHANGED << rlVars, faultVars, cfgCall, extVars, callers, names, chunkChoices, disk, savedStats, vsCalls >>

\* search_all(...) called on the manager; collection_names = None is
\* list(self.stores.keys()), the known collections in the order the
\* dictionary holds them
VectorStoreManager_search_all(query, collection_names, k_per_collection, score_threshold) ==
    /\ vsLast' = [ op |-> "search_all", collection_name |-> "",
                   returned |-> search_all(stores, query, collection_names,
                                           k_per_collection, score_threshold),
                   raised |-> FALSE,
                   args |-> [ query |-> query, k |-> k_per_collection,
                              collection_names |-> collection_names,
                              score_threshold |-> score_threshold ] ]
    /\ stores' = stores
    /\ UNCHANGED << rlVars, faultVars, cfgCall, extVars, callers, names, chunkChoices, disk, savedStats, vsCalls >>

Remove(f, k) == [ x \in DOMAIN f \ { k } |-> f[x] ]

\* whether the directory VECTOR_STORE_DIR / name is VECTOR_STORE_DIR / dir
\* or lies below it
Within(name, dir) ==
    /\ Len(PathOf(dir)) <= Len(PathOf(name))
    /\ SubSeq(PathOf(name), 1, Len(PathOf(dir))) = PathOf(dir)

\* VectorStoreManager.delete_collection(collection_name); rmtree_ok says
\* whether shutil.rmtree succeeds (when it raises, nothing was removed)
delete_collection(ss, d, collection_name, rmtree_ok) ==
    IF collection_name \notin DOMAIN ss
    THEN [ stores |-> ss, disk |-> d, returned |-> FALSE ]
    ELSE IF rmtree_ok
    THEN [ stores |-> Remove(ss, collection_name),
           disk |-> Restrict(d, { n \in DOMAIN d : ~Within(n, collection_name) }),
           returned |-> TRUE ]
    ELSE [ stores |-> Remove(ss, collection_name), disk |-> d, returned |-> FALSE ]

\* delete_collection(collection_name) called on the manager
VectorStoreManager_delete_collection(collection_name, rmtree_ok) ==
    /\ vsCalls < MaxCalls
    /\ vsCalls' = vsCalls + 1
    /\ LET out == delete_collection(stores, disk, collection_name, rmtree_ok)
       IN  /\ stores' = out.stores
           /\ disk' = out.disk
           /\ savedStats' = Restrict(savedStats, DOMAIN savedStats \cap DOMAIN out.disk)
           /\ vsLast' = [ op |-> "delete_collection", collection_name |-> collection_name,
                          returned |-> out.returned, raised |-> FALSE ]
    /\ UNCHANGED << rlVars, faultVars, cfgCall, extVars, callers, names, chunkChoices >>

\* the process ends and a new VectorStoreManager() is constructed on the
\* same VECTOR_STORE_DIR
Restart ==
    /\ vsLast.op # "restart"
    /\ stores' = load_existing_stores(disk)
    /\ vsLast' = [ op |-> "restart", collection_name |-> "",
                   returned |-> << >>, raised |-> FALSE ]
    /\ UNCHANGED << rlVars, faultVars, cfgCall, extVars, callers, names, chunkChoices, disk, savedStats, vsCalls >>

\* the last call was a search
Searched == vsLast.op \in { "search", "search_all" }

InitVS ==
    /\ InitCommon
    /\ concCfg = NoConfig
    /\ backend = "memory"
    /\ callers = {}
    /\ names = { "c1" }
    /\ chunkChoices = { Chunk(t, 0) : t \in Texts }

NextVS ==
    \/ \E n \in names, chunks \in SeqsUpTo(chunkChoices, 2), b \in BatchSizes, ok \in BOOLEAN :
           \E ids \in DistinctSeqs(ChunkIds \ UsedIds(stores), Len(chunks)) :
               add_document(n, chunks, b, ids, ok)
    \/ \E n \in names, chunk_ids \in SUBSET (ChunkIds \cup { BadId }) :
           /\ Cardinality(chunk_ids) <= 2
           /\ VectorStore_delete_chunks(n, chunk_ids)
    \/ Restart
    \/ \E n \in names \cup { "unknown" } : VectorStoreManager_delete_collection(n, TRUE)
    \/ \E n \in names \cup { "unknown" }, q \in Queries, k \in Ks :
           /\ ~Searched
           /\ VectorStoreManager_search(n, q, k, [ key \in {} |-> 0 ], 0)

SpecVS == InitVS /\ [][NextVS]_vars

\* the vector store on a file system that may fail
\* the artifacts of a collection, in the order save() writes them
Artifacts == << "faiss_index", "metadata_pkl", "info_json" >>

\* VectorStore.save() when the write of Artifacts[failed_at] raises: the
\* artifacts before it are written, the failing one is left half-written,
\* the ones after it are not touched
save_failing(store, files, collection_name, failed_at) ==
    LET written == save(store, collection_name)
    IN  [ a \in { Artifacts[i] : i \in 1 .. 3 } |->
            LET i == CHOOSE j \in 1 .. 3 : Artifacts[j] = a
            IN  IF i < failed_at THEN written[a]
                ELSE IF i = failed_at THEN [ written[a] EXCEPT !.state = "corrupt" ]
                ELSE files[a] ]

\* store.save() called on a registered store; failed_at = 0 when every
\* write succeeds, otherwise save() logs and raises RuntimeError
VectorStore_save(collection_name, failed_at) ==
    /\ collection_name \in DOMAIN stores
    /\ vsCalls < MaxCalls
    /\ vsCalls' = vsCalls + 1
    /\ disk' = Put(disk, collection_name,
                   IF failed_at = 0
                   THEN save(stores[collection_name], collection_name)
                   ELSE save_failing(stores[collection_name], Files(disk, collection_name),
                                     collection_name, failed_at))
    /\ savedStats' = IF failed_at = 0
                     THEN Put(savedStats, collection_name, StatsOf(stores[collection_name]))
                     ELSE Restrict(savedStats, DOMAIN savedStats \ { collection_name })
    /\ vsLast' = [ op |-> "save", collection_name |-> collection_name,
                   returned |-> << >>, raised |-> failed_at # 0 ]
    /\ UNCHANGED << rlVars, faultVars, cfgCall, extVars, callers, names, chunkChoices, stores >>

\* store.load() called on a registered store (two loads in a row add nothing)
VectorStore_load(collection_name) ==
    /\ collection_name \in DOMAIN stores
    /\ vsLast.op # "load"
    /\ LET out == load(stores[collection_name], Files(disk, collection_name))
       IN  /\ stores' = Put(stores, collection_name, out.store)
           /\ vsLast' = [ op |-> "load", collection_name |-> collection_name,
                          returned |-> out.returned, raised |-> FALSE ]
    /\ UNCHANGED << rlVars, faultVars, cfgCall, extVars, callers, names, chunkChoices, disk, savedStats, vsCalls >>

InitVSFault ==
    /\ InitCommon
    /\ concCfg = NoConfig
    /\ backend = "memory"
    /\ callers = {}
    /\ names = { "c1" }
    /\ chunkChoices = { Chunk("a", 0), Chunk("b", 0) }

NextVSFault ==
    \/ \E n \in names, chunks \in SeqsUpTo(chunkChoices, 2), b \in BatchSizes, ok \in BOOLEAN :
           \E ids \in DistinctSeqs(ChunkIds \ UsedIds(stores), Len(chunks)) :
               add_document(n, chunks, b, ids, ok)
    \/ \E n \in names, rmtree_ok \in BOOLEAN :
           VectorStoreManager_delete_collection(n, rmtree_ok)
    \/ Restart
    \/ \E n \in names, failed_at \in 0 .. 3 : VectorStore_save(n, failed_at)
    \/ \E n \in names : VectorStore_load(n)

SpecVSFault == InitVSFault /\ [][NextVSFault]_vars

\* two collections searched: chunks with two texts, with and without a page
InitSearch ==
    /\ InitCommon
    /\ concCfg = NoConfig
    /\ backend = "memory"
    /\ callers = {}
    /\ names = CollectionNames
    /\ chunkChoices = { Chunk("a", 0), Chunk("a", 1), Chunk("b", 2) }

\* the uuids drawn are the first unused ones: which ones they are does not
\* matter to a search; the searches explored are those that follow a write
\* (a search changes no store)
NextSearch ==
    \/ \E n \in names, chunks \in SeqsUpTo(chunkChoices, 2), b \in { 2 } :
           \E ids \in DistinctSeqs(ChunkIds \ UsedIds(stores), Len(chunks)) :
               /\ \A i \in 1 .. Len(ids) :
                      \A c \in ChunkIds \ UsedIds(stores) :
                          IdRank(c) < IdRank(ids[i]) => \E j \in 1 .. i - 1 : ids[j] = c
               /\ add_document(n, chunks, b, ids, TRUE)
    \/ \E n \in CollectionNames \cup { "unknown" }, q \in Queries, k \in Ks,
          f \in FilterChoices, th \in Thresholds :
           /\ ~Searched
           /\ VectorStoreManager_search(n, q, k, f, th)
    \/ \E q \in Queries, k \in Ks, th \in Thresholds :
           \E cn \in DistinctSeqs(DOMAIN stores, Cardinality(DOMAIN stores)) :
               /\ ~Searched
               /\ VectorStoreManager_search_all(q, cn, k, th)

SpecSearch == InitSearch /\ [][NextSearch]_vars

\* three collections, one of them named by a path below another
InitNames ==
    /\ InitCommon
    /\ concCfg = NoConfig
    /\ backend = "memory"
    /\ callers = {}
    /\ names = CollectionNames \cup { NestedName }
    /\ chunkChoices = { Chunk("a", 0) }

NextNames ==
    \/ \E n \in names, chunks \in SeqsUpTo(chunkChoices, 1), ok \in BOOLEAN :
           \E ids \in DistinctSeqs(ChunkIds \ UsedIds(stores), Len(chunks)) :
               add_document(n, chunks, 1, ids, ok)
    \/ \E n \in names, chunk_ids \in SUBSET ChunkIds :
           /\ Cardinality(chunk_ids) = 1
           /\ VectorStore_delete_chunks(n, chunk_ids)
    \/ \E n \in names : VectorStoreManager_delete_collection(n, TRUE)
    \/ Restart

SpecNames == InitNames /\ [][NextNames]_vars

\* ---------------------------------------------------------- RedisManager
\* RedisManager._default_ttl
DefaultTtl == 3600

CacheKeys == { "k1", "k2" }
CacheValues == { "v1", "v2" }
\* the ttl argument: << >> when omitted (None), << n >> when given
TtlArgs == { << >>, << 0 >>, << 60 >>, << -1 >> }
\* an entry that never expires
NoExpiry == -1

\* `ttl or self._default_ttl`
EffectiveTtl(ttl) == IF ttl = << >> \/ ttl[1] = 0 THEN DefaultTtl ELSE ttl[1]

\* the closure _set() of RedisManager.set on the server's keys: setex when
\* the effective ttl is positive, otherwise setnx / exists-then-set / set
RedisSet(keys, key, value, ttl, nx, xx) ==
    IF EffectiveTtl(ttl) > 0
    THEN [ keys |-> Put(keys, key, [ value |-> value, ttl |-> EffectiveTtl(ttl) ]),
           returned |-> TRUE ]
    ELSE LET e == [ value |-> value, ttl |-> NoExpiry ]
         IN  IF nx
             THEN IF key \in DOMAIN keys
                  THEN [ keys |-> keys, returned |-> FALSE ]
                  ELSE [ keys |-> Put(keys, key, e), returned |-> TRUE ]
             ELSE IF xx
             THEN IF key \in DOMAIN keys
                  THEN [ keys |-> Put(keys, key, e), returned |-> TRUE ]
                  ELSE [ keys |-> keys, returned |-> FALSE ]
             ELSE [ keys |-> Put(keys, key, e), returned |-> TRUE ]

\* RedisManager.set(key, value, ttl, nx=nx, xx=xx); an unhealthy connection
\* raises before the server is asked
RedisManager_set(key, value, ttl, nx, xx, healthy) ==
    /\ LET out == RedisSet(kv, key, value, ttl, nx, xx)
       IN  /\ kv' = IF healthy THEN out.keys ELSE kv
           /\ kvLast' = [ op |-> "set", key |-> key, value |-> value, ttl |-> ttl,
                          nx |-> nx, xx |-> xx,
                          returned |-> healthy /\ out.returned, raised |-> ~healthy ]
    /\ UNCHANGED << callers, rlVars, faultVars, cfgCall, vsVars, laterVars, concVars, raceVars, authVars >>

\* RedisManager.delete(key)
RedisManager_delete(key) ==
    /\ kv' = Restrict(kv, DOMAIN kv \ { key })
    /\ kvLast' = [ NoSet EXCEPT !.op = "delete", !.key = key, !.returned = key \in DOMAIN kv ]
    /\ UNCHANGED << callers, rlVars, faultVars, cfgCall, vsVars, laterVars, concVars, raceVars, authVars >>

InitCache ==
    /\ InitCommon
    /\ concCfg = NoConfig
    /\ backend = "memory"
    /\ callers = {}
    /\ names = {}
    /\ chunkChoices = {}

NextCache ==
    \/ \E key \in CacheKeys, value \in CacheValues, ttl \in TtlArgs,
          nx \in BOOLEAN, xx \in BOOLEAN, healthy \in BOOLEAN :
           /\ ~(nx /\ xx)
           /\ RedisManager_set(key, value, ttl, nx, xx, healthy)
    \/ \E key \in CacheKeys : RedisManager_delete(key)

SpecCache == InitCache /\ [][NextCache]_vars

\* ------------------------------------- concurrent check_rate_limit calls
\* every caller is the identifier "u"; a call is a sequence of steps, and
\* the section a call runs under the lock (or the script the server runs)
\* is one step
ConcIdentifier == << "u" >>
ConcConfigs == { cfg \in Configs : cfg.cost = 1 /\ cfg.namespace = "ratelimit" }

\* the locked section of _cleanup_old_windows, current_time read at t
SweepLocked(storage, t) ==
    Restrict(storage, { k \in DOMAIN storage : ~(t - KeyWindowStart(k) > KeepSeconds) })

Tallied(tl, key, result) ==
    IF result.allowed
    THEN Put(tl, key, (IF key \in DOMAIN tl THEN tl[key] ELSE 0) + result.cost)
    ELSE tl

\* check_rate_limit begins: _cleanup_old_windows reads the clock and
\* _last_cleanup before it takes the lock
Mem_enter(p) ==
    /\ backend = "memory"
    /\ procs[p].pc = "idle"
    /\ concCalls < MaxCalls
    /\ concCalls' = concCalls + 1
    /\ procs' = [ procs EXCEPT ![p] =
                    [ NoProc EXCEPT !.t = now,
                                    !.pc = IF now - _last_cleanup < CleanupInterval
                                           THEN "key" ELSE "sweep" ] ]
    /\ UNCHANGED << callers, rlVars, faultVars, cfgCall, vsVars, kvVars, tally, concCfg, laterVars, raceVars, authVars >>

\* _cleanup_old_windows under the lock
Mem_sweep(p) ==
    /\ procs[p].pc = "sweep"
    /\ _storage' = SweepLocked(_storage, procs[p].t)
    /\ _last_cleanup' = procs[p].t
    /\ procs' = [ procs EXCEPT ![p].pc = "key" ]
    /\ UNCHANGED << callers, now, ticks, backend, redis, _script_sha, last, run,
                    faultVars, cfgCall, vsVars, kvVars, tally, concCfg, concCalls, laterVars, raceVars, authVars >>

\* window_key and current_time are computed, outside the lock
Mem_key(p) ==
    /\ procs[p].pc = "key"
    /\ procs' = [ procs EXCEPT ![p].pc = "body",
                               ![p].window_key =
                                   _get_window_key(ConcIdentifier, concCfg.window_seconds, now),
                               ![p].current_time = now ]
    /\ UNCHANGED << callers, rlVars, faultVars, cfgCall, vsVars, kvVars, tally, concCfg, concCalls, laterVars, raceVars, authVars >>

\* the section of check_rate_limit under the lock
Mem_body(p) ==
    /\ procs[p].pc = "body"
    /\ LET out == MemCheckLocked(_storage, ConcIdentifier, concCfg,
                                 procs[p].window_key, procs[p].current_time)
       IN  /\ _storage' = out.storage
           /\ tally' = Tallied(tally, out.result.window_key, out.result)
    /\ procs' = [ procs EXCEPT ![p] = NoProc ]
    /\ UNCHANGED << callers, now, ticks, backend, _last_cleanup, redis, _script_sha, last, run,
                    faultVars, cfgCall, vsVars, kvVars, concCfg, concCalls, laterVars, raceVars, authVars >>

\* RedisRateLimiter.check_rate_limit begins on a reachable server: the
\* script is loaded if it was not, current_time is read
Rds_enter(p) ==
    /\ backend = "redis"
    /\ procs[p].pc = "idle"
    /\ concCalls < MaxCalls
    /\ concCalls' = concCalls + 1
    /\ _script_sha' = "sha"
    /\ procs' = [ procs EXCEPT ![p] = [ NoProc EXCEPT !.pc = "eval", !.current_time = now ] ]
    /\ UNCHANGED << callers, now, ticks, backend, _storage, _last_cleanup, redis, last, run,
                    faultVars, cfgCall, vsVars, kvVars, tally, concCfg, laterVars, raceVars, authVars >>

\* the server runs the script of the call
Rds_eval(p) ==
    /\ procs[p].pc = "eval"
    /\ LET redis_key == _generate_key(ConcIdentifier, concCfg.namespace)
           out == LuaScript(RedisLive(redis, now), redis_key, concCfg.window_seconds,
                            concCfg.requests_per_window, concCfg.cost,
                            procs[p].current_time, now)
           result == RedisParseReply(out.reply, ConcIdentifier, concCfg, redis_key)
       IN  /\ redis' = out.store
           /\ tally' = Tallied(tally, result.window_key, result)
    /\ procs' = [ procs EXCEPT ![p] = NoProc ]
    /\ UNCHANGED << callers, now, ticks, backend, _storage, _last_cleanup, _script_sha, last, run,
                    faultVars, cfgCall, vsVars, kvVars, concCfg, concCalls, laterVars, raceVars, authVars >>

InitConc ==
    /\ InitCommon
    /\ backend \in { "memory", "redis" }
    /\ concCfg \in ConcConfigs
    /\ callers = { ConcIdentifier }
    /\ names = {}
    /\ chunkChoices = {}

NextConc ==
    \/ \E d \in Steps : Tick(d)
    \/ \E p \in Procs : Mem_enter(p)
    \/ \E p \in Procs : Mem_sweep(p)
    \/ \E p \in Procs : Mem_key(p)
    \/ \E p \in Procs : Mem_body(p)
    \/ \E p \in Procs : Rds_enter(p)
    \/ \E p \in Procs : Rds_eval(p)

SpecConc == InitConc /\ [][NextConc]_vars

\* ----------------------------------------- concurrent add_document calls
\* each of two threads calls add_document once with one chunk; a call is a
\* sequence of steps on the shared manager, which takes no lock
\* the chunk id uuid4 gives caller p: the callers' ids differ in the prefix
AdderId(p) == << p, 1 >>

\* get_store, line 338: `if collection_name not in self.stores`
Add_check(p, collection_name, encode_ok) ==
    /\ adders[p].pc = "idle"
    /\ adders' = [ adders EXCEPT ![p] =
                     [ NoAdder EXCEPT !.collection_name = collection_name,
                                      !.encode_ok = encode_ok,
                                      !.pc = IF collection_name \in DOMAIN registry
                                             THEN "return" ELSE "create" ] ]
    /\ UNCHANGED << callers, rlVars, faultVars, cfgCall, vsVars, kvVars, concVars, objs, registry, laterVars, authVars >>

\* get_store, lines 339-341: a store is constructed and registered
Add_create(p) ==
    /\ adders[p].pc = "create"
    /\ objs' = Append(objs, [ collection_name |-> adders[p].collection_name, store |-> NewStore ])
    /\ registry' = Put(registry, adders[p].collection_name, Len(objs) + 1)
    /\ adders' = [ adders EXCEPT ![p].pc = "return" ]
    /\ UNCHANGED << callers, rlVars, faultVars, cfgCall, vsVars, kvVars, concVars, laterVars, authVars >>

\* get_store, line 344: `return self.stores[collection_name]`
Add_return(p) ==
    /\ adders[p].pc = "return"
    /\ adders' = [ adders EXCEPT ![p].pc = "add", ![p].obj = registry[adders[p].collection_name] ]
    /\ UNCHANGED << callers, rlVars, faultVars, cfgCall, vsVars, kvVars, concVars, objs, registry, laterVars, authVars >>

\* add_document, line 364: store.add_texts(chunks, batch_size)
Add_texts(p) ==
    /\ adders[p].pc = "add"
    /\ LET out == add_texts(objs[adders[p].obj].store, << Chunk("a", 0) >>, 1,
                            << AdderId(p) >>, adders[p].encode_ok)
       IN  /\ objs' = [ objs EXCEPT ![adders[p].obj].store = out.store ]
           /\ adders' = [ adders EXCEPT ![p].pc = IF out.raised THEN "done" ELSE "save",
                                        ![p].returned = out.returned,
                                        ![p].raised = out.raised ]
    /\ UNCHANGED << callers, rlVars, faultVars, cfgCall, vsVars, kvVars, concVars, registry, laterVars, authVars >>

\* add_document, lines 365-366: store.save(), then the chunk ids are returned
Add_save(p) ==
    /\ adders[p].pc = "save"
    /\ disk' = Put(disk, adders[p].collection_name,
                   save(objs[adders[p].obj].store, adders[p].collection_name))
    /\ adders' = [ adders EXCEPT ![p].pc = "done" ]
    /\ UNCHANGED << callers, rlVars, faultVars, cfgCall, kvVars, concVars, objs, registry,
                    names, chunkChoices, stores, vsLast, savedStats, vsCalls, laterVars, authVars >>

InitRace ==
    /\ InitCommon
    /\ concCfg = NoConfig
    /\ backend = "memory"
    /\ callers = {}
    /\ names = CollectionNames
    /\ chunkChoices = { Chunk("a", 0) }

NextRace ==
    \/ \E p \in Procs, n \in names, ok \in BOOLEAN : Add_check(p, n, ok)
    \/ \E p \in Procs : Add_create(p)
    \/ \E p \in Procs : Add_return(p)
    \/ \E p \in Procs : Add_texts(p)
    \/ \E p \in Procs : Add_save(p)

SpecRace == InitRace /\ [][NextRace]_vars

\* ------------------------------------------- auth_fixes.RateLimiter
\* the arguments the callers pass: check_rate_limit(key, AuthLimit, AuthWindow)
AuthKeys == { "login:a", "login:b" }
AuthLimit == 2
AuthWindow == 120

\* the members of the sorted set `key` the server still holds at time t; a
\* member is str(current) with score current, so a member is its score
ZMembers(z, key, t) ==
    IF key \in DOMAIN z /\ z[key].expire_at > t THEN z[key].members ELSE {}

\* the pipeline of RateLimiter.check_rate_limit, run at time `current` as
\* one transaction: ZREMRANGEBYSCORE key 0 window_start, ZCARD, ZADD
\* {str(current): current}, EXPIRE; then the decision on the count
AuthCheck(z, key, limit, window, current) ==
    LET window_start == current - window
        kept == { m \in ZMembers(z, key, current) : ~(m <= window_start) }
        count == Cardinality(kept)
        added == kept \cup { current }
        z1 == Put(z, key, [ members |-> added, expire_at |-> current + window ])
        oldest == CHOOSE m \in added : \A n \in added : m <= n
    IN  [ zsets |-> z1,
          result |-> IF count >= limit
                     THEN [ key |-> key, allowed |-> FALSE, remaining |-> 0,
                            retry_after |-> oldest + window - current, count |-> count ]
                     ELSE [ key |-> key, allowed |-> TRUE, remaining |-> limit - count - 1,
                            retry_after |-> 0, count |-> count ] ]

\* RateLimiter.check_rate_limit(key, limit, window) on a server that answers
Auth_check_rate_limit(key) ==
    /\ authCalls < MaxCalls
    /\ authCalls' = authCalls + 1
    /\ LET out == AuthCheck(zsets, key, AuthLimit, AuthWindow, now)
       IN  /\ zsets' = out.zsets
           /\ authLast' = out.result
           /\ admitted' = IF out.result.allowed
                          THEN Put(admitted, key,
                                   (IF key \in DOMAIN admitted THEN admitted[key] ELSE << >>)
                                       \o << now >>)
                          ELSE admitted
    /\ UNCHANGED << callers, rlVars, faultVars, cfgCall, vsVars, kvVars, concVars, raceVars, laterVars >>

InitAuth ==
    /\ InitCommon
    /\ concCfg = NoConfig
    /\ backend = "redis"
    /\ callers = {}
    /\ names = {}
    /\ chunkChoices = {}

NextAuth ==
    \/ \E d \in Steps : Tick(d)
    \/ \E key \in AuthKeys : Auth_check_rate_limit(key)

SpecAuth == InitAuth /\ [][NextAuth]_vars

\* ------------------------------------------------------- LoginSecurity
MAX_LOGIN_ATTEMPTS == 5
\* seconds
LOCKOUT_DURATION == 900
\* the clock of this part of the model counts half seconds, so that int()
\* of a time difference has something to cut off
TicksPerSecond == 2
Seconds(n) == n * TicksPerSecond
\* clock advances: half a second, and up to one second before a lockout ends
LoginSteps == { 1, Seconds(LOCKOUT_DURATION - 1) }
\* failed attempts made at most
MaxAttempts == MAX_LOGIN_ATTEMPTS + 1

\* int(x) of a time difference of d clock units: truncation toward zero
IntSeconds(d) == IF d >= 0 THEN d \div TicksPerSecond ELSE -((-d) \div TicksPerSecond)

\* whether the server still holds the key at time t (expire_at = -1: no ttl)
Held(entry, t) == entry.value # 0 /\ (entry.expire_at = -1 \/ entry.expire_at > t)

\* check_login_attempts(username) on the server's keys at time t
check_login_attempts(lockout, t) ==
    IF Held(lockout, t) /\ IntSeconds(lockout.value - t) > 0
    THEN [ made |-> TRUE, allowed |-> FALSE, remaining |-> IntSeconds(lockout.value - t) ]
    ELSE [ made |-> TRUE, allowed |-> TRUE, remaining |-> 0 ]

LoginTick(d) ==
    /\ loginTicks < MaxTicks
    /\ loginTicks' = loginTicks + 1
    /\ loginNow' = loginNow + d
    /\ UNCHANGED << callers, rlVars, faultVars, cfgCall, vsVars, kvVars, concVars, raceVars,
                    authVars, attemptsKey, lockoutKey, recorders, loginLast, incrs, lockoutDue, poolVars >>

LoginSecurity_check_login_attempts ==
    /\ loginLast' = check_login_attempts(lockoutKey, loginNow)
    /\ UNCHANGED << callers, rlVars, faultVars, cfgCall, vsVars, kvVars, concVars, raceVars,
                    authVars, loginNow, loginTicks, attemptsKey, lockoutKey, recorders,
                    incrs, lockoutDue, poolVars >>

\* record_failed_attempt, line 489: INCR attempts_key
Rec_incr(p) ==
    /\ recorders[p].pc = "idle"
    /\ incrs < MaxAttempts
    /\ incrs' = incrs + 1
    /\ LET entry == IF Held(attemptsKey, loginNow)
                    THEN [ attemptsKey EXCEPT !.value = @ + 1 ]
                    ELSE [ value |-> 1, expire_at |-> -1 ]
       IN  /\ attemptsKey' = entry
           /\ recorders' = [ recorders EXCEPT ![p] = [ pc |-> "expire", attempts |-> entry.value ] ]
    /\ UNCHANGED << callers, rlVars, faultVars, cfgCall, vsVars, kvVars, concVars, raceVars,
                    authVars, loginNow, loginTicks, lockoutKey, loginLast, lockoutDue, poolVars >>

\* record_failed_attempt, lines 492-495: EXPIRE attempts_key, then the test
\* of the count INCR returned
Rec_expire(p) ==
    /\ recorders[p].pc = "expire"
    /\ attemptsKey' = IF Held(attemptsKey, loginNow)
                      THEN [ attemptsKey EXCEPT !.expire_at = loginNow + Seconds(LOCKOUT_DURATION * 2) ]
                      ELSE attemptsKey
    /\ recorders' = [ recorders EXCEPT ![p] =
                        IF recorders[p].attempts >= MAX_LOGIN_ATTEMPTS
                        THEN [ @ EXCEPT !.pc = "lock" ] ELSE NoRecorder ]
    /\ UNCHANGED << callers, rlVars, faultVars, cfgCall, vsVars, kvVars, concVars, raceVars,
                    authVars, loginNow, loginTicks, lockoutKey, loginLast, incrs, lockoutDue, poolVars >>

\* record_failed_attempt, lines 496-497: SETEX lockout_key
Rec_lock(p) ==
    /\ recorders[p].pc = "lock"
    /\ LET lockout_until == loginNow + Seconds(LOCKOUT_DURATION)
       IN  /\ lockoutKey' = [ value |-> lockout_until,
                              expire_at |-> loginNow + Seconds(LOCKOUT_DURATION) ]
           /\ lockoutDue' = Max(lockoutDue, lockout_until)
    /\ recorders' = [ recorders EXCEPT ![p].pc = "delete" ]
    /\ UNCHANGED << callers, rlVars, faultVars, cfgCall, vsVars, kvVars, concVars, raceVars,
                    authVars, loginNow, loginTicks, attemptsKey, loginLast, incrs, poolVars >>

\* record_failed_attempt, line 502: DELETE attempts_key
Rec_delete(p) ==
    /\ recorders[p].pc = "delete"
    /\ attemptsKey' = NoEntry
    /\ recorders' = [ recorders EXCEPT ![p] = NoRecorder ]
    /\ UNCHANGED << callers, rlVars, faultVars, cfgCall, vsVars, kvVars, concVars, raceVars,
                    authVars, loginNow, loginTicks, lockoutKey, loginLast, incrs, lockoutDue, poolVars >>

InitLogin ==
    /\ InitCommon
    /\ concCfg = NoConfig
    /\ backend = "redis"
    /\ callers = {}
    /\ names = {}
    /\ chunkChoices = {}

NextLogin ==
    \/ \E d \in LoginSteps : LoginTick(d)
    \/ LoginSecurity_check_login_attempts
    \/ \E p \in Procs : Rec_incr(p)
    \/ \E p \in Procs : Rec_expire(p)
    \/ \E p \in Procs : Rec_lock(p)
    \/ \E p \in Procs : Rec_delete(p)

SpecLogin == InitLogin /\ [][NextLogin]_vars

\* ------------------------------------------------------- ConnectionPool
\* A string is modelled as the sequence of its parts between hyphens, except
\* a uuid, which is << its first 8 characters, the rest >>.
Uuids == { << "aaaaaaaa", "r1" >>, << "bbbbbbbb", "r2" >>, << "cccccccc", "r3" >> }
\* application_name as given to the constructor
AppNames == { << "app", "x1" >>, << "svc" >> }
\* min_connections as given to the constructor
MinConnections == { 0, 1 }
\* max_connections of the modelled pool
PoolMax == 3
\* acquire and release calls made at most
MaxPoolCalls == 4
None == << >>

\* _init_connection, line 255: f"{self.application_name}-{connection_id[:8]}"
ApplicationNameOf(application_name, connection_id) == application_name \o << connection_id[1] >>

\* _get_connection_id(conn): the part of application_name after its last
\* hyphen; None when the query fails or the name has no hyphen
_get_connection_id(app_name, show_ok) ==
    IF show_ok /\ Len(app_name) > 1 THEN << app_name[Len(app_name)] >> ELSE None

\* how often id occurs in the deque
Occurrences(queue, id) == Cardinality({ i \in 1..Len(queue) : queue[i] = id })
\* deque.remove(id): the first occurrence is taken out
DequeRemove(queue, id) ==
    LET i == CHOOSE j \in 1..Len(queue) : queue[j] = id /\ \A k \in 1..(j - 1) : queue[k] # id
    IN  SubSeq(queue, 1, i - 1) \o SubSeq(queue, i + 1, Len(queue))

\* the constructor
ConnectionPool_construct(application_name, min_connections) ==
    /\ pool.state = "none"
    /\ pool' = [ min_connections |-> min_connections, application_name |-> application_name,
                 state |-> "new" ]
    /\ UNCHANGED << callers, rlVars, faultVars, cfgCall, vsVars, kvVars, concVars, raceVars,
                    authVars, loginVars, conns, held, tracked, idle_connections,
                    active_connections, poolLast, poolCalls >>

\* initialize(): holds _lock while asyncpg.create_pool opens min_connections
\* connections, each through _init_connection, which waits for _lock: with
\* min_connections > 0 the call never returns and _pool stays None
ConnectionPool_initialize ==
    /\ pool.state = "new"
    /\ pool' = [ pool EXCEPT !.state = IF pool.min_connections = 0 THEN "ready" ELSE "blocked" ]
    /\ UNCHANGED << callers, rlVars, faultVars, cfgCall, vsVars, kvVars, concVars, raceVars,
                    authVars, loginVars, conns, held, tracked, idle_connections,
                    active_connections, poolLast, poolCalls >>

\* the tracking part of _acquire_with_tracking for the connection id read back
TrackAcquire(connection_id) ==
    IF connection_id # None /\ connection_id \in DOMAIN tracked
    THEN /\ idle_connections' = IF Occurrences(idle_connections, connection_id) > 0
                                THEN DequeRemove(idle_connections, connection_id)
                                ELSE idle_connections
         /\ active_connections' = active_connections \cup { connection_id }
         /\ tracked' = [ tracked EXCEPT ![connection_id] = "active" ]
    ELSE UNCHANGED << tracked, idle_connections, active_connections >>

\* acquire() on a connection the asyncpg pool has open and free
ConnectionPool_acquire(conn, show_ok) ==
    /\ pool.state = "ready"
    /\ poolCalls < MaxPoolCalls
    /\ conn \in DOMAIN conns \ held
    /\ TrackAcquire(_get_connection_id(conns[conn], show_ok))
    /\ held' = held \cup { conn }
    /\ poolLast' = [ op |-> "acquire", conn |-> conn ]
    /\ poolCalls' = poolCalls + 1
    /\ UNCHANGED << callers, rlVars, faultVars, cfgCall, vsVars, kvVars, concVars, raceVars,
                    authVars, loginVars, pool, conns >>

\* acquire() when the asyncpg pool opens a new connection for it:
\* _init_connection registers the connection under its full uuid, then the
\* tracking part runs on the id read back from application_name
ConnectionPool_acquire_new(conn, show_ok) ==
    /\ pool.state = "ready"
    /\ poolCalls < MaxPoolCalls
    /\ conn \in Uuids \ DOMAIN conns
    /\ Cardinality(DOMAIN conns) < PoolMax
    /\ LET app_name == ApplicationNameOf(pool.application_name, conn)
           connection_id == _get_connection_id(app_name, show_ok)
           registered == Put(tracked, conn, "idle")
           queued == Append(idle_connections, conn)
       IN  /\ conns' = Put(conns, conn, app_name)
           /\ IF connection_id # None /\ connection_id \in DOMAIN registered
              THEN /\ idle_connections' = IF Occurrences(queued, connection_id) > 0
                                          THEN DequeRemove(queued, connection_id) ELSE queued
                   /\ active_connections' = active_connections \cup { connection_id }
                   /\ tracked' = [ registered EXCEPT ![connection_id] = "active" ]
              ELSE /\ idle_connections' = queued
                   /\ tracked' = registered
                   /\ UNCHANGED active_connections
    /\ held' = held \cup { conn }
    /\ poolLast' = [ op |-> "acquire", conn |-> conn ]
    /\ poolCalls' = poolCalls + 1
    /\ UNCHANGED << callers, rlVars, faultVars, cfgCall, vsVars, kvVars, concVars, raceVars,
                    authVars, loginVars, pool >>

\* release(connection) of a connection acquire() returned; recycle: the
\* connection is older than max_lifetime, overused or marked leaked
ConnectionPool_release(conn, show_ok, recycle) ==
    /\ pool.state = "ready"
    /\ poolCalls < MaxPoolCalls
    /\ conn \in held
    /\ LET connection_id == _get_connection_id(conns[conn], show_ok)
       IN  IF connection_id # None /\ connection_id \in DOMAIN tracked
           THEN /\ active_connections' = active_connections \ { connection_id }
                /\ IF recycle
                   THEN /\ tracked' = [ tracked EXCEPT ![connection_id] = "broken" ]
                        /\ UNCHANGED idle_connections
                   ELSE /\ tracked' = [ tracked EXCEPT ![connection_id] = "idle" ]
                        /\ idle_connections' = Append(idle_connections, connection_id)
           ELSE UNCHANGED << tracked, idle_connections, active_connections >>
    /\ held' = held \ { conn }
    /\ poolLast' = [ op |-> "release", conn |-> conn ]
    /\ poolCalls' = poolCalls + 1
    /\ UNCHANGED << callers, rlVars, faultVars, cfgCall, vsVars, kvVars, concVars, raceVars,
                    authVars, loginVars, pool, conns >>

InitPool ==
    /\ InitCommon
    /\ concCfg = NoConfig
    /\ backend = "memory"
    /\ callers = {}
    /\ names = {}
    /\ chunkChoices = {}

NextPool ==
    \/ \E application_name \in AppNames, min_connections \in MinConnections :
         ConnectionPool_construct(application_name, min_connections)
    \/ ConnectionPool_initialize
    \/ \E conn \in Uuids, show_ok \in BOOLEAN : ConnectionPool_acquire(conn, show_ok)
    \/ \E conn \in Uuids, show_ok \in BOOLEAN : ConnectionPool_acquire_new(conn, show_ok)
    \/ \E conn \in Uuids, show_ok \in BOOLEAN, recycle \in BOOLEAN :
         ConnectionPool_release(conn, show_ok, recycle)

SpecPool == InitPool /\ [][NextPool]_vars

\* ------------------------------------------------------------------ claims
CheckStep ==
    \E i \in callers, c \in Configs :
        \/ \E d \in Delays : InMemory_check_rate_limit(i, c, d)
        \/ Redis_check_rate_limit(i, c)

UsageStep ==
    \E i \in callers, c \in Configs :
        \/ \E d \in Delays : InMemory_get_usage(i, c, d)
        \/ Redis_get_usage(i, c)

ResetStep ==
    \E i \in callers, c \in Configs : InMemory_reset(i, c) \/ Redis_reset(i, c)

\* the (allowed, remaining) a check_rate_limit(identifier, config) made at
\* time t returns on the given limiter state
CheckOutcome(storage, last_cleanup, store, identifier, config, t) ==
    LET r == IF backend = "memory"
             THEN MemCheck(storage, last_cleanup, identifier, config, t, t).result
             ELSE RedisEval(store, identifier, config, t, t).result
    IN  << r.allowed, r.remaining >>

\* the key of the window of (identifier, config) that is current at time t
CurrentKey(identifier, config, t) ==
    IF backend = "memory"
    THEN _get_window_key(identifier, config.window_seconds, t)
    ELSE Append(_generate_key(identifier, config.namespace),
                WindowStart(t, config.window_seconds))

\* C1: N consecutive unit-cost check_rate_limit calls made inside one window
\* on a fresh counter are all allowed, the k-th reporting remaining = N - k,
\* and the (N+1)-th call of that window is rejected with remaining = 0.
C1_QuotaThenReject ==
    (last.op = "check" /\ run >= 1 /\ last.config.cost = 1) =>
        LET N == last.config.requests_per_window
        IN  /\ run <= N => (last.result.allowed /\ last.result.remaining = N - run)
            /\ run = N + 1 => (~last.result.allowed /\ last.result.remaining = 0)

\* C2: every rejected check_rate_limit result has
\* 0 < retry_after <= window_seconds.
C2_RetryAfterRange ==
    (last.op = "check" /\ ~last.result.allowed) =>
        /\ last.result.retry_after > 0
        /\ last.result.retry_after <= last.config.window_seconds

\* a unit-cost call rejected strictly inside its window
C2_Witness ==
    /\ last.op = "check" /\ ~last.result.allowed
    /\ last.result.retry_after < last.config.window_seconds
    /\ last.config.cost = 1

\* C3: get_usage(identifier, config) is read-only: it leaves the counter of the
\* window it reports on as it was, and it never changes the result (allowed,
\* remaining) of the check_rate_limit(identifier, config) made after it, at
\* whatever later instant.
C3_UsageReadOnly ==
    [][ UsageStep =>
          /\ Counter(_storage', RedisLive(redis', now'), last'.result.window_key)
               = Counter(_storage, RedisLive(redis, now), last'.result.window_key)
          /\ \A e \in { 0 } \cup Steps :
                CheckOutcome(_storage', _last_cleanup', redis',
                             last'.identifier, last'.config, now' + e)
                  = CheckOutcome(_storage, _last_cleanup, redis,
                                 last'.identifier, last'.config, now' + e) ]_vars

C7_RejectLeavesCounter ==
    [][ (CheckStep /\ ~last'.result.allowed) =>
          Counter(_storage', RedisLive(redis', now'), last'.result.window_key)
            = Counter(_storage, RedisLive(redis, now), last'.result.window_key) ]_vars

\* C8: while a window lasts its counter never decreases under check_rate_limit,
\* get_usage and cleanup calls (reset alone may lower it).
C8_WindowCounterMonotone ==
    [][ ~ResetStep =>
          \A i \in callers, c \in Configs :
              CurrentKey(i, c, now) = CurrentKey(i, c, now') =>
                  Counter(_storage', RedisLive(redis', now'), CurrentKey(i, c, now'))
                    >= Counter(_storage, RedisLive(redis, now), CurrentKey(i, c, now)) ]_vars

\* C9: a check_rate_limit call under one namespace never changes the counter
\* the same identifier has under a config of another namespace.
C9_NamespacesIndependent ==
    [][ CheckStep =>
          \A c \in Configs :
              c.namespace # last'.config.namespace =>
                  CheckOutcome(_storage', _last_cleanup', redis', last'.identifier, c, now')
                    = CheckOutcome(_storage, _last_cleanup, redis, last'.identifier, c, now') ]_vars

\* C5: when a Redis operation that check_rate_limit needs fails, the call
\* returns a result with allowed = true and raises nothing.
C5_FailOpen ==
    (last.op \in { "check", "check_raised" } /\ last.failed) =>
        (last.op = "check" /\ last.result.allowed)

\* C6: RateLimitConfig raises on a non-positive requests_per_window,
\* window_seconds or cost, and the object it otherwise returns holds the
\* arguments as given.
C6_ConfigValidated ==
    cfgCall.made =>
        LET n == cfgCall.args[1]
            w == cfgCall.args[2]
            c == cfgCall.args[3]
        IN  IF n <= 0 \/ w <= 0 \/ c <= 0
            THEN cfgCall.outcome = ValueError
            ELSE /\ cfgCall.outcome # ValueError
                 /\ cfgCall.outcome.requests_per_window = n
                 /\ cfgCall.outcome.window_seconds = w
                 /\ cfgCall.outcome.cost = c

\* a construction refused for its cost alone
C6_Witness ==
    /\ cfgCall.made
    /\ cfgCall.args[1] > 0 /\ cfgCall.args[2] > 0 /\ cfgCall.args[3] = 0
    /\ cfgCall.outcome = ValueError

CountsAgree(ss) ==
    \A n \in DOMAIN ss : Len(ss[n].index) = Len(ss[n].metadata)

\* C10: after any add_document or delete_chunks call the index holds as many
\* vectors as the store holds metadata records; stated by induction over the
\* calls that return: a call that starts from equal counts and returns
\* leaves them equal.
C10_VectorsMatchMetadata ==
    [][ (CountsAgree(stores) /\ ~vsLast'.raised) => CountsAgree(stores') ]_vars

Merged ==
    AllResults(stores, vsLast.args.query, vsLast.args.collection_names,
               vsLast.args.k, vsLast.args.score_threshold)

\* C12: search_all returns entries of the merged per-collection results, no
\* two with the same text, in non-increasing score order; every merged text
\* is returned once, with the highest score the merged results give it.
C12_SearchAllDedupSorted ==
    vsLast.op = "search_all" =>
        LET R == vsLast.returned
        IN  /\ \A i, j \in 1 .. Len(R) :
                   i < j => /\ R[i].text # R[j].text
                            /\ R[i].similarity_score >= R[j].similarity_score
            /\ \A i \in 1 .. Len(R) : \E m \in 1 .. Len(Merged) : Merged[m] = R[i]
            /\ \A m \in 1 .. Len(Merged) :
                   \E i \in 1 .. Len(R) :
                       /\ R[i].text = Merged[m].text
                       /\ R[i].similarity_score >= Merged[m].similarity_score

\* one text stored in two collections, found in both, returned once, next to
\* a result of a lower score
C12_Witness ==
    /\ vsLast.op = "search_all"
    /\ Len(vsLast.returned) = 2
    /\ vsLast.returned[1].similarity_score > vsLast.returned[2].similarity_score
    /\ \E m, n \in 1 .. Len(Merged) :
           /\ Merged[m].text = Merged[n].text
           /\ Merged[m].collection_name # Merged[n].collection_name

\* C13: search on a collection the manager does not hold, or on one whose
\* index holds no vector, returns the empty list and raises nothing, and
\* the manager holds the same collections after it.
C13_SearchUnknownOrEmpty ==
    [][ ( /\ vsLast'.op = "search"
          /\ vsLast' # vsLast
          /\ \/ vsLast'.collection_name \notin DOMAIN stores
             \/ Len(get_store(stores, vsLast'.collection_name).index) = 0 )
        => /\ vsLast'.returned = << >>
           /\ ~vsLast'.raised
           /\ stores' = stores ]_vars

\* a search on a collection that holds chunk records and a chunk count but
\* no vector
C13_Witness ==
    /\ vsLast.op = "search"
    /\ vsLast.collection_name \in DOMAIN stores
    /\ Len(stores[vsLast.collection_name].index) = 0
    /\ stores[vsLast.collection_name].total_chunks # 0
    /\ Len(stores[vsLast.collection_name].metadata) > 0
    /\ vsLast.args.query = "a"
    /\ vsLast.returned = << >>

\* a delete_chunks call has just completed
DeleteStep == vsCalls' # vsCalls /\ vsLast'.op = "delete_chunks"

\* the chunk ids of the records a store holds
StoredIds(store) == { store.metadata[i].chunk_id : i \in 1 .. Len(store.metadata) }

\* C14: delete_chunks with ids of no stored chunk returns 0 and leaves the
\* index and the metadata as they were; with stored ids it removes the
\* vectors and the records of exactly those chunks and returns their number.
C14_DeleteExactly ==
    [][ DeleteStep =>
          LET before == stores[vsLast'.collection_name]
              after == stores'[vsLast'.collection_name]
              chunk_ids == vsLast'.args.chunk_ids
              stored == chunk_ids \cap StoredIds(before)
          IN  /\ vsLast'.returned = Cardinality(stored)
              /\ after.metadata = SelectSeq(before.metadata, LAMBDA m : m.chunk_id \notin stored)
              /\ after.index = SelectSeq(before.index, LAMBDA v : v.chunk \notin stored) ]_vars

\* a delete_collection call has just completed
DeleteCollectionStep == vsCalls' # vsCalls /\ vsLast'.op = "delete_collection"

\* C15: delete_collection returns false only when the manager does not hold
\* the collection; after it the collection is in memory and on disk, or in
\* neither; after true a manager constructed on the root does not load it.
C15_DeleteCollectionAllOrNothing ==
    [][ DeleteCollectionStep =>
          LET n == vsLast'.collection_name
          IN  /\ ~vsLast'.returned => n \notin DOMAIN stores
              /\ n \in DOMAIN stores' <=> n \in DOMAIN disk'
              /\ vsLast'.returned => n \notin DOMAIN load_existing_stores(disk') ]_vars

\* C16: search returns at most k results, each scoring at least
\* score_threshold, in non-increasing score order, and each holding, for
\* every key of filters, the value filters gives the key.
C16_SearchBoundedFiltered ==
    vsLast.op = "search" =>
        LET R == vsLast.returned
            filters == vsLast.args.filters
        IN  /\ Len(R) <= vsLast.args.k
            /\ \A i \in 1 .. Len(R) : R[i].similarity_score >= vsLast.args.score_threshold
            /\ \A i, j \in 1 .. Len(R) :
                   i < j => R[i].similarity_score >= R[j].similarity_score
            /\ \A i \in 1 .. Len(R) : \A key \in DOMAIN filters : R[i].page = filters[key]

\* an add_document call has just completed
AddStep == vsCalls' # vsCalls /\ vsLast'.op = "add_document"

\* C17: an add_document during which the embedding provider fails raises,
\* leaves the metadata list and the index of the collection holding what
\* they held before the call, and writes nothing to disk.
C17_EmbeddingFailureNoPartial ==
    [][ (AddStep /\ ~vsLast'.args.encode_ok /\ vsLast'.raised) =>
          LET before == get_store(stores, vsLast'.collection_name)
              after == get_store(stores', vsLast'.collection_name)
          IN  /\ after.metadata = before.metadata
              /\ after.index = before.index
              /\ disk' = disk ]_vars

\* what a new manager would load of the collection equals what is in memory
PersistedAsInMemory(ss, d, collection_name) ==
    LET loaded == load_existing_stores(d)
    IN  /\ collection_name \in DOMAIN loaded
        /\ StatsOf(loaded[collection_name]) = StatsOf(ss[collection_name])

\* C18: after a completed add_document call, and after a completed
\* delete_chunks call on a collection that was persisted as it was in memory,
\* the chunk records and chunk count a new manager would load from disk
\* equal those of the collection in memory.
C18_PersistedAfterMutation ==
    [][ ( \/ AddStep /\ ~vsLast'.raised
          \/ DeleteStep /\ PersistedAsInMemory(stores, disk, vsLast'.collection_name) ) =>
          PersistedAsInMemory(stores', disk', vsLast'.collection_name) ]_vars

\* an explicit store.save() or store.load() call has just completed
SaveStep == vsCalls' # vsCalls /\ vsLast'.op = "save"
LoadStep == vsLast.op # "load" /\ vsLast'.op = "load"

\* load() meets an artifact it cannot read
LoadFails(files) ==
    \/ files.faiss_index.state = "corrupt"
    \/ /\ files.faiss_index.state = "ok"
       /\ "corrupt" \in { files.metadata_pkl.state, files.info_json.state }

\* C19: a save or a load that fails raises to its caller and leaves the
\* in-memory store (index, metadata, total_chunks) as it was before the call.
C19_PersistenceFailureRaisedAtomic ==
    [][ ( \/ SaveStep /\ vsLast'.raised
          \/ LoadStep /\ LoadFails(Files(disk, vsLast'.collection_name)) ) =>
          /\ vsLast'.raised
          /\ stores' = stores ]_vars

\* the chunk records of `store` that a hit on index id `id` maps to
RecordsUnder(store, id) ==
    { i \in 1 .. Len(store.metadata) : FaissId(store.metadata[i].chunk_id) = id }

\* the vectors of `store` that were added for the chunk `chunk_id`
VectorsOf(store, chunk_id) ==
    { i \in 1 .. Len(store.index) : store.index[i].chunk = chunk_id }

\* C20: in every collection each stored vector is found under an index id
\* that belongs to exactly one chunk record, and a delete_chunks call keeps
\* the vectors of every chunk record it keeps.
C20_OneVectorPerChunk ==
    [][ /\ \A n \in DOMAIN stores' :
               \A i \in 1 .. Len(stores'[n].index) :
                   Cardinality(RecordsUnder(stores'[n], stores'[n].index[i].id)) = 1
        /\ DeleteStep =>
               LET n == vsLast'.collection_name
               IN  \A i \in 1 .. Len(stores'[n].metadata) :
                       LET c == stores'[n].metadata[i].chunk_id
                       IN  Cardinality(VectorsOf(stores'[n], c)) =
                               Cardinality(VectorsOf(stores[n], c)) ]_vars

\* a set() call has just returned
SetStep == kvLast'.op = "set" /\ ~kvLast'.raised

\* C21: set(key, value, nx=True) leaves an existing key as it was, and
\* set(key, value, xx=True) leaves a missing key missing, whatever the ttl
\* argument is (omitted included).
C21_SetHonoursNxXx ==
    [][ SetStep =>
          /\ (kvLast'.nx /\ kvLast'.key \in DOMAIN kv) =>
                 (kvLast'.key \in DOMAIN kv' /\ kv'[kvLast'.key] = kv[kvLast'.key])
          /\ (kvLast'.xx /\ kvLast'.key \notin DOMAIN kv) =>
                 kvLast'.key \notin DOMAIN kv' ]_vars

\* the window keys of ConcIdentifier that name the window the clock is in
CurrentKeys ==
    { k \in DOMAIN tally :
        KeyWindowStart(k) = WindowStart(now, concCfg.window_seconds) }

\* C22: under every interleaving of concurrent check_rate_limit calls on a
\* reachable backend, the total cost of the calls allowed in the current
\* window is at most requests_per_window and the window counter equals it.
C22_CheckAndIncrementAtomic ==
    \A k \in CurrentKeys :
        /\ tally[k] <= concCfg.requests_per_window
        /\ Counter(_storage, RedisLive(redis, now), k) = tally[k]

\* a call on one collection has just completed
CollectionStep ==
    /\ vsCalls' # vsCalls
    /\ vsLast'.op \in { "add_document", "delete_chunks", "delete_collection" }

\* C23: add_document, delete_chunks and delete_collection on one collection
\* leave the store (index, metadata, statistics) and the artifacts on disk
\* of every collection with another name as they were.
C23_CollectionsIndependent ==
    [][ CollectionStep =>
          \A m \in names \ { vsLast'.collection_name } :
              /\ (m \in DOMAIN stores') = (m \in DOMAIN stores)
              /\ m \in DOMAIN stores => stores'[m] = stores[m]
              /\ Files(disk', m) = Files(disk, m) ]_vars

\* the stores constructed for a collection name
StoresOf(collection_name) ==
    { i \in 1 .. Len(objs) : objs[i].collection_name = collection_name }

\* both add_document calls were made on one collection and have returned
BothReturned ==
    /\ \A p \in Procs : adders[p].pc = "done" /\ ~adders[p].raised
    /\ \A p, q \in Procs : adders[p].collection_name = adders[q].collection_name

\* C24: once two concurrent add_document calls for one collection have
\* returned, one store was constructed for the name and the registered
\* store holds the chunks of both calls.
C24_OneStorePerName ==
    BothReturned =>
        \A p \in Procs :
            LET n == adders[p].collection_name
            IN  /\ Cardinality(StoresOf(n)) = 1
                /\ AdderId(p) \in StoredIds(objs[registry[n]].store)

\* the identifier a window key was made for
KeyIdentifier(key) ==
    IF backend = "memory" THEN SubSeq(key, 1, Len(key) - 1) ELSE key[2]

\* C25: reset(identifier, config) leaves the counter of every window of
\* every other identifier as it was, an identifier that begins with the
\* reset identifier and ":" included.
C25_ResetOnlyOwnWindows ==
    [][ ResetStep =>
          LET before == IF backend = "memory" THEN _storage ELSE RedisLive(redis, now)
              after == IF backend = "memory" THEN _storage' ELSE redis'
              own == IF backend = "memory" THEN last'.identifier
                     ELSE KeyHash(last'.identifier)
          IN  \A k \in DOMAIN before :
                  KeyIdentifier(k) # own =>
                      (k \in DOMAIN after /\ after[k] = before[k]) ]_vars

\* C26: the allowed flag get_usage(identifier, config) reports is the
\* decision check_rate_limit takes on the same counter: allowed exactly when
\* current + cost <= requests_per_window.
C26_UsageAgreesWithCheck ==
    [][ UsageStep =>
          last'.result.allowed =
              (Counter(_storage', RedisLive(redis', now'), last'.result.window_key)
                   + last'.config.cost <= last'.config.requests_per_window) ]_vars

\* C27: every RedisRateLimiter.check_rate_limit call that is begun returns,
\* also when the server reports the script as not loaded on every attempt.
C27_CheckTerminates ==
    (call.pc # "idle") ~> (call.pc = "idle")

\* how many requests on `key` were allowed at times t with from <= t < from + window
AdmittedWithin(key, from, window) ==
    Cardinality({ i \in 1 .. Len(admitted[key]) :
                    from <= admitted[key][i] /\ admitted[key][i] < from + window })

\* C29: the auth RateLimiter allows at most `limit` requests of one key in
\* any span of `window` seconds, requests of the same second included.
C29_AuthLimitHolds ==
    \A key \in DOMAIN admitted :
        \A i \in 1 .. Len(admitted[key]) :
            AdmittedWithin(key, admitted[key][i], AuthWindow) <= AuthLimit

\* C28: while the lockout a record_failed_attempt has stored has not run
\* out, check_login_attempts returns not-allowed with a positive remaining
\* time; while fewer than MAX_LOGIN_ATTEMPTS failures were counted it
\* returns allowed.
C28_LockoutHolds ==
    [][ LoginSecurity_check_login_attempts =>
          /\ loginNow < lockoutDue => (~loginLast'.allowed /\ loginLast'.remaining > 0)
          /\ incrs < MAX_LOGIN_ATTEMPTS => loginLast'.allowed ]_vars

\* C30: after acquire() has returned a connection its tracked record is
\* ACTIVE, its id is in the active set and not in the idle queue; after
\* release() of that connection the record is IDLE, the id is not in the
\* active set and is in the idle queue exactly once.
C30_TrackingFollowsUse ==
    /\ poolLast.op = "acquire" =>
         /\ poolLast.conn \in DOMAIN tracked
         /\ tracked[poolLast.conn] = "active"
         /\ poolLast.conn \in active_connections
         /\ Occurrences(idle_connections, poolLast.conn) = 0
    /\ poolLast.op = "release" =>
         /\ poolLast.conn \in DOMAIN tracked
         /\ tracked[poolLast.conn] = "idle"
         /\ poolLast.conn \notin active_connections
         /\ Occurrences(idle_connections, poolLast.conn) = 1

====
